---- MODULE Spec2Model ----
(***************************************************************************)
(* A model of the WooCommerce Prometheus exporter: the paginated store     *)
(* client (woocommerce-client.js), the metrics collector                   *)
(* (metrics-collector.js) and the application's collection cycles          *)
(* (app.js).                                                               *)
(*                                                                         *)
(* Node.js runs one callback at a time: a handler runs from the arrival of *)
(* an HTTP response (or a timer, or a request) up to the next network      *)
(* await of every promise chain it resumes.  One action of this model is   *)
(* one such run.                                                           *)
(***************************************************************************)
EXTENDS Integers, Sequences, FiniteSets, TLC

\* ---------------------------------------------------------------- bounds
MaxTicks == 1          \* clock ticks observed
MaxCycles == 1         \* collectAllMetrics invocations
MaxManual == 1         \* POST /collect/:storeId invocations
MaxColls == 2          \* collectStoreMetrics invocations in one run
MaxUpPages == 2        \* non-empty upstream pages of a finite upstream (SpecClient)
MaxPageLen == 2        \* records in an upstream page (stands for up to per_page)

\* ------------------------------------------------------ program constants
PerPage == 100         \* page size of getAllOrders / getAllProducts
PageLimit == 100       \* "Safety limit to prevent infinite loops"
TickMs == 6            \* clock units (of 100 ms) per tick

Stores == {"store1", "store2"}
StoreName(s) == IF s = "store1" THEN "Store 1" ELSE "Store 2"
Currency(s) == "USD"

None == "none"

\* ------------------------------------------------------------- variables
VARIABLES
  phase,          \* where the process is in its life, see start and shutdown
  proc,           \* the store configuration, this.cronJob, this.server, exit code
  storeClients,   \* keys of app.storeClients
  upstream,       \* the stores' data, as the REST API serves it
  now,            \* Date.now(), in units of 100 ms
  call,           \* a direct getAllOrders / getAllProducts call (SpecClient)
  colls,          \* MetricsCollector.collectStoreMetrics invocations
  cycles,         \* collectAllMetrics invocations
  manuals,        \* number of POST /collect/:storeId requests served
  registry,       \* the prom-client registry: series -> (labels -> value)
  lastCollectionTime

vars == <<phase, proc, storeClients, upstream, now, call, colls, cycles, manuals,
          registry, lastCollectionTime>>

\* ------------------------------------------------------------ the clock
\* Date.now() is counted in units of 100 ms (TLC's integers are 32 bits wide):
\* Unit is one millisecond count per unit, so x ms is x \div UnitMs units.
UnitMs == 100
DayMs == (24 * 60 * 60 * 1000) \div UnitMs
NinetyDaysMs == (90 * 24 * 60 * 60 * 10) * (100 \div UnitMs)
Epoch == 40 * DayMs    \* Date.now() when the process is constructed

\* ------------------------------------------------- upstream (REST server)
\* Orders as the API returns them.  total is the API's decimal string.
OrderA == [id |-> 1, status |-> "completed", total |-> "10.00",
           date_created |-> Epoch,
           line_items |-> <<[product_id |-> 7, name |-> "Mug", quantity |-> 2]>>]
OrderB == [id |-> 2, status |-> "pending", total |-> "25.50",
           date_created |-> Epoch - 5 * DayMs,
           line_items |-> <<[product_id |-> 8, name |-> "Cap", quantity |-> 1]>>]
OrderC == [id |-> 3, status |-> "completed", total |-> "abc",
           date_created |-> Epoch - 20 * DayMs,
           line_items |-> <<>>]
OrderPool == {OrderA, OrderB, OrderC}
\* a completed order without a total: the absent property reads as undefined,
\* which parseFloat converts to the string "undefined"
Undefined == "undefined"
OrderU == [id |-> 4, status |-> "completed", total |-> Undefined,
           date_created |-> Epoch - 4 * DayMs,
           line_items |-> <<>>]
\* a pending order for a product no other order sells
OrderP == [id |-> 5, status |-> "pending", total |-> "25.50",
           date_created |-> Epoch - 2 * DayMs,
           line_items |-> <<[product_id |-> 12, name |-> "Hat", quantity |-> 1]>>]
\* one completed order with eleven products; the quantities are those of
\* products 1..11, two of them equal at the top and seven equal further down
BigQuantities == <<5, 20, 20, 1, 3, 3, 3, 3, 3, 3, 3>>
OrderBig == [id |-> 6, status |-> "completed", total |-> "25.50",
             date_created |-> Epoch - 3 * DayMs,
             line_items |-> [i \in 1..Len(BigQuantities) |->
                               [product_id |-> i, name |-> "Item",
                                quantity |-> BigQuantities[i]]]]

\* stock_quantity is a number, or null when the stock is not tracked.
Null == [null |-> TRUE]
Num(n) == [null |-> FALSE, v |-> n]
ProductA == [id |-> 7, status |-> "publish", stock_quantity |-> Num(0),
             stock_status |-> "outofstock", manage_stock |-> TRUE]
ProductB == [id |-> 8, status |-> "draft", stock_quantity |-> Num(5),
             stock_status |-> "instock", manage_stock |-> TRUE]
ProductC == [id |-> 9, status |-> "publish", stock_quantity |-> Null,
             stock_status |-> "instock", manage_stock |-> FALSE]
ProductPool == {ProductA, ProductB, ProductC}
\* marked out of stock while a (small) quantity is still recorded
ProductD == [id |-> 10, status |-> "publish", stock_quantity |-> Num(3),
             stock_status |-> "outofstock", manage_stock |-> TRUE]
\* plenty in stock
ProductE == [id |-> 11, status |-> "private", stock_quantity |-> Num(50),
             stock_status |-> "instock", manage_stock |-> TRUE]

SeqsUpTo(S, n) == UNION {[1..k -> S] : k \in 0..n}
NonEmptyPages(S) == SeqsUpTo(S, MaxPageLen) \ {<<>>}

\* The page the server holds for a request: the stored page, an empty page
\* past the end of the data, or (an endless upstream) one more full page.
ServePages(pages, endless, filler, page) ==
  IF page <= Len(pages) THEN pages[page]
  ELSE IF endless THEN filler ELSE <<>>

ServeCustomers(n, page, perPage) ==
  LET first == (page - 1) * perPage
      len == IF n - first <= 0 THEN 0
             ELSE IF n - first < perPage THEN n - first ELSE perPage
  IN [i \in 1..len |-> first + i]

Serve(s, req) ==
  LET u == upstream[s]
      p == req.params
  IN CASE req.endpoint = "orders" ->
            ServePages(u.orders, u.endless, <<OrderB>>, p.page)
       [] req.endpoint = "products" ->
            ServePages(u.products, u.endless, <<ProductB>>, p.page)
       [] req.endpoint = "customers" ->
            ServeCustomers(u.customers, p.page, p.per_page)

\* ------------------------------------------- woocommerce-client.js
\* { ...defaults, ...params }: the keys of params override the defaults.
Merge(defaults, params) ==
  [k \in DOMAIN defaults \cup DOMAIN params |->
     IF k \in DOMAIN params THEN params[k] ELSE defaults[k]]

\* getOrders / getProducts / getCustomers: the request handed to api.get.
getRequest(endpoint, params) ==
  [endpoint |-> endpoint,
   params |-> Merge([per_page |-> 100, page |-> 1], params)]

\* const pageParams = { ...params, page, per_page: 100 }
pageParams(params, page) == Merge(params, [page |-> page, per_page |-> PerPage])

NoRet == [kind |-> "none"]
ErrRet == [kind |-> "error"]
ValRet(v) == [kind |-> "value", data |-> v]

\* getAllOrders / getAllProducts up to the first await: page 1 is requested.
getAllStart(endpoint, params) ==
  [pc |-> "await", endpoint |-> endpoint, params |-> params, page |-> 1,
   all |-> <<>>,
   reqs |-> <<getRequest(endpoint, pageParams(params, 1))>>,
   ret |-> NoRet]

\* (mutant) the new page is put in front of the pages collected so far
pushAllPrepend(all, data) == data \o all

\* allOrders.push(...orders)
pushAll(all, data) == all \o data

\* (mutant) the limit is tested with >=
pageLimitReachedEarly(page) == page >= PageLimit

\* The loop's exit test after a non-empty page: `if (page > 100) break`.
pageLimitReached(page) == page > PageLimit

\* (mutant) the error is swallowed and the pages collected so far are returned
getAllCatchPartial(st) ==
  [st EXCEPT !.pc = "done", !.all = <<>>, !.ret = ValRet(st.all)]

\* (mutant) a failed page is requested again, up to maxRetries times
getAllCatchRetries(st) ==
  IF Cardinality({i \in 1..Len(st.reqs) : st.reqs[i].params.page = st.page})
       <= proc.stores[1].maxRetries
  THEN [st EXCEPT !.reqs = Append(@, getRequest(st.endpoint, pageParams(st.params, st.page)))]
  ELSE [st EXCEPT !.pc = "failed", !.all = <<>>, !.ret = ErrRet]

\* The catch blocks of getOrders and getAllOrders: both log and rethrow, so
\* the call ends with the error and the pages pushed so far are dropped.
getAllCatch(st) == [st EXCEPT !.pc = "failed", !.all = <<>>, !.ret = ErrRet]

\* getAllOrders / getAllProducts resumed by the response to the page request.
getAllResume(st, ok, data) ==
  IF ~ok THEN getAllCatch(st)
  ELSE IF Len(data) = 0 THEN
    [st EXCEPT !.pc = "done", !.all = <<>>, !.ret = ValRet(st.all)]
  ELSE
    LET all == pushAll(st.all, data)
        page == st.page + 1
    IN IF pageLimitReached(page) THEN
         [st EXCEPT !.pc = "done", !.page = page, !.all = <<>>, !.ret = ValRet(all)]
       ELSE
         [st EXCEPT !.page = page, !.all = all,
                    !.reqs = Append(@, getRequest(st.endpoint, pageParams(st.params, page)))]

\* testConnection up to its await: `this.api.get('system_status')`.
testConnectionStart ==
  [pc |-> "await", endpoint |-> "system_status",
   reqs |-> <<[endpoint |-> "system_status", params |-> <<>>]>>,
   ret |-> NoRet]

\* (mutant) the catch block logs and rethrows
testConnectionCatchRethrows(st) == [st EXCEPT !.pc = "failed", !.ret = ErrRet]

\* testConnection's catch block: the error is logged, false is returned.
testConnectionCatch(st) == [st EXCEPT !.pc = "done", !.ret = ValRet(FALSE)]

\* testConnection resumed by the response to the status request.
testConnectionResume(st, ok) ==
  IF ok THEN [st EXCEPT !.pc = "done", !.ret = ValRet(TRUE)]
  ELSE testConnectionCatch(st)

\* ------------------------------------------------ prom-client registry
SeriesNames ==
  {"totalOrdersGauge", "ordersByStatusGauge", "totalRevenueGauge",
   "revenueTodayGauge", "revenueThisMonthGauge", "totalProductsGauge",
   "lowStockProductsGauge", "outOfStockProductsGauge", "totalCustomersGauge",
   "averageOrderValueGauge", "pendingOrdersGauge", "failedOrdersGauge",
   "processingOrdersGauge", "topProductsSoldGauge", "lastScrapeSuccessGauge",
   "scrapeErrorsCounter", "scrapeDurationGauge", "apiResponseTimeGauge"}

\* initializeMetrics: every series is declared and has no cell yet.
initializeMetrics == [n \in SeriesNames |-> <<>>]

\* The labelNames each series is declared with.
labelNames(series) ==
  CASE series \in {"totalOrdersGauge", "ordersByStatusGauge"} ->
         {"store_id", "store_name", "status", "currency"}
    [] series \in {"totalRevenueGauge", "averageOrderValueGauge"} ->
         {"store_id", "store_name", "currency", "period"}
    [] series \in {"revenueTodayGauge", "revenueThisMonthGauge"} ->
         {"store_id", "store_name", "currency"}
    [] series = "totalProductsGauge" -> {"store_id", "store_name", "status"}
    [] series = "lowStockProductsGauge" -> {"store_id", "store_name", "threshold"}
    [] series = "topProductsSoldGauge" ->
         {"store_id", "store_name", "product_id", "product_name"}
    [] series = "scrapeErrorsCounter" -> {"store_id", "store_name", "error_type"}
    [] series = "apiResponseTimeGauge" -> {"store_id", "store_name", "endpoint"}
    [] OTHER -> {"store_id", "store_name"}

Put(f, k, v) == [x \in DOMAIN f \cup {k} |-> IF x = k THEN v ELSE f[x]]

\* (mutant) the order total is added to the cell (Gauge.inc) instead of set
gaugeSetAdds(reg, series, labels, value) ==
  [reg EXCEPT ![series] =
     Put(@, labels, IF series = "totalOrdersGauge" /\ labels \in DOMAIN @
                    THEN @[labels] + value ELSE value)]

\* (mutant) a customer count is only ever raised
gaugeSetMax(reg, series, labels, value) ==
  [reg EXCEPT ![series] =
     Put(@, labels, IF series = "totalCustomersGauge" /\ labels \in DOMAIN @
                       /\ @[labels] > value
                    THEN @[labels] ELSE value)]

\* (mutant) a revenue cell that exists is left as it is
gaugeSetKeepsRevenue(reg, series, labels, value) ==
  [reg EXCEPT ![series] =
     Put(@, labels, IF series = "totalRevenueGauge" /\ labels \in DOMAIN @
                    THEN @[labels] ELSE value)]

\* Gauge.set(labels, value): the cell is created or overwritten.
gaugeSet(reg, series, labels, value) ==
  [reg EXCEPT ![series] = Put(@, labels, value)]

\* (mutant) the counter cell is set to 1 instead of being added to
counterIncOverwrite(reg, series, labels) ==
  [reg EXCEPT ![series] = Put(@, labels, 1)]

\* Counter.inc(labels): the cell is created at 0 if absent, then 1 is added.
counterInc(reg, series, labels) ==
  [reg EXCEPT ![series] =
     Put(@, labels, (IF labels \in DOMAIN @ THEN @[labels] ELSE 0) + 1)]

Write(series, labels, value) == [series |-> series, labels |-> labels, value |-> value]

\* The gauge writes of one handler, applied in source order.
RECURSIVE applyWrites(_, _)
applyWrites(reg, writes) ==
  IF writes = <<>> THEN reg
  ELSE applyWrites(gaugeSet(reg, Head(writes).series, Head(writes).labels,
                            Head(writes).value), Tail(writes))

\* (mutant) every client reports the identity of the first store
storeLabelsFirst(s) == [store_id |-> "store1", store_name |-> StoreName("store1")]

\* const { id: storeId, name: storeName } = wooClient.getStoreInfo()
storeLabels(s) == [store_id |-> s, store_name |-> StoreName(s)]

\* (mutant) the error is counted only while the cell does not exist
incScrapeErrorsOnce(reg, s, errorType) ==
  IF storeLabels(s) @@ [error_type |-> errorType] \in DOMAIN reg["scrapeErrorsCounter"]
  THEN reg
  ELSE counterInc(reg, "scrapeErrorsCounter", storeLabels(s) @@ [error_type |-> errorType])

\* (mutant) a failed reduction also resets the store's totals to 0
incScrapeErrorsResets(reg, s, errorType) ==
  LET counted == counterInc(reg, "scrapeErrorsCounter",
                            storeLabels(s) @@ [error_type |-> errorType])
  IN IF errorType = "orders"
     THEN gaugeSet(counted, "totalOrdersGauge",
                   storeLabels(s) @@ [status |-> "all"] @@ [currency |-> Currency(s)], 0)
     ELSE IF errorType = "products"
     THEN gaugeSet(counted, "totalProductsGauge", storeLabels(s) @@ [status |-> "all"], 0)
     ELSE counted

\* this.scrapeErrorsCounter.inc({ store_id, store_name, error_type })
incScrapeErrors(reg, s, errorType) ==
  counterInc(reg, "scrapeErrorsCounter", storeLabels(s) @@ [error_type |-> errorType])

\* --------------------------------------------------- order reduction
RECURSIVE SeqSum(_)
SeqSum(s) == IF s = <<>> THEN 0 ELSE Head(s) + SeqSum(Tail(s))

Range(s) == {s[i] : i \in 1..Len(s)}

RECURSIVE SetToSeq(_)
SetToSeq(S) ==
  IF S = {} THEN <<>>
  ELSE LET x == CHOOSE y \in S : TRUE IN <<x>> \o SetToSeq(S \ {x})

\* Number.prototype.toString: the decimal digits of a natural number.
Digits == <<"0", "1", "2", "3", "4", "5", "6", "7", "8", "9">>
RECURSIVE toString(_)
toString(n) ==
  IF n < 10 THEN Digits[n + 1] ELSE toString(n \div 10) \o Digits[(n % 10) + 1]

\* parseFloat on the API's decimal strings, in cents; NaN for anything else.
NaN == [nan |-> TRUE]
parseFloat(str) ==
  CASE str = "10.00" -> [nan |-> FALSE, v |-> 1000]
    [] str = "25.50" -> [nan |-> FALSE, v |-> 2550]
    [] OTHER -> NaN

\* parseFloat(order.total) || 0
orderTotal(order) ==
  LET f == parseFloat(order.total) IN IF f.nan \/ f.v = 0 THEN 0 ELSE f.v

\* Date.toDateString(): the calendar day.
toDateString(ms) == ms \div DayMs
\* `${getFullYear()}-${getMonth() + 1}`: the calendar month (months of 30 days).
DaysPerMonth == 30
monthKey(ms) == toDateString(ms) \div DaysPerMonth

\* statusCounts[status] = (statusCounts[status] || 0) + 1
statusCounts(records) ==
  [st \in {r.status : r \in Range(records)} |->
     Cardinality({i \in 1..Len(records) : records[i].status = st})]

countOf(counts, st) == IF st \in DOMAIN counts THEN counts[st] ELSE 0

\* (mutant) the month's revenue is accumulated outside the
\* `if (status === 'completed')` block
revenueMonthAnyStatus(orders, period, t) ==
  SeqSum([i \in 1..Len(orders) |->
            IF \/ orders[i].status = "completed"
                    /\ \/ period = "all_time"
                       \/ period = "today"
                            /\ toDateString(orders[i].date_created) = toDateString(t)
               \/ period = "this_month"
                    /\ monthKey(orders[i].date_created) = monthKey(t)
            THEN orderTotal(orders[i]) ELSE 0])

\* (mutant) the revenue is summed over the orders of every status
revenueAllOrders(orders, period, t) ==
  SeqSum([i \in 1..Len(orders) |->
            IF \/ period = "all_time"
               \/ period = "today"
                    /\ toDateString(orders[i].date_created) = toDateString(t)
               \/ period = "this_month"
                    /\ monthKey(orders[i].date_created) = monthKey(t)
            THEN orderTotal(orders[i]) ELSE 0])

\* The revenue accumulators: the sum of the totals of the completed orders,
\* of all of them ("all_time"), of those created on the day of t ("today") or
\* in the month of t ("this_month").
revenue(orders, period, t) ==
  SeqSum([i \in 1..Len(orders) |->
            IF /\ orders[i].status = "completed"
               /\ \/ period = "all_time"
                  \/ period = "today"
                       /\ toDateString(orders[i].date_created) = toDateString(t)
                  \/ period = "this_month"
                       /\ monthKey(orders[i].date_created) = monthKey(t)
            THEN orderTotal(orders[i]) ELSE 0])

\* All line items of the orders, in order.
RECURSIVE lineItems(_)
lineItems(orders) ==
  IF orders = <<>> THEN <<>> ELSE Head(orders).line_items \o lineItems(Tail(orders))

\* productSales: product id -> name of its first line item, summed quantity.
productSales(orders) ==
  LET items == lineItems(orders)
      ids == {it.product_id : it \in Range(items)}
      firstOf(id) == CHOOSE i \in 1..Len(items) :
                       /\ items[i].product_id = id
                       /\ \A j \in 1..(i - 1) : items[j].product_id # id
  IN [id \in ids |->
        [name |-> items[firstOf(id)].name,
         quantity |-> SeqSum([i \in 1..Len(items) |->
                                IF items[i].product_id = id
                                THEN items[i].quantity ELSE 0])]]

TopN == 10

\* Object.entries(productSales) lists integer keys in ascending order; the
\* stable sort by descending quantity keeps that order among equal quantities.
RECURSIVE sortedSales(_, _)
sortedSales(sales, ids) ==
  IF ids = {} THEN <<>>
  ELSE LET best == CHOOSE id \in ids :
                     \A o \in ids :
                       \/ sales[id].quantity > sales[o].quantity
                       \/ sales[id].quantity = sales[o].quantity /\ id <= o
       IN <<best>> \o sortedSales(sales, ids \ {best})

\* (mutant) the slice takes the end of the sorted list
topProductsTail(sales) ==
  LET sorted == sortedSales(sales, DOMAIN sales)
  IN SubSeq(sorted, IF Len(sorted) < TopN THEN 1 ELSE Len(sorted) - TopN + 1, Len(sorted))

\* .slice(0, 10)
topProducts(sales) ==
  LET sorted == sortedSales(sales, DOMAIN sales)
  IN SubSeq(sorted, 1, IF Len(sorted) < TopN THEN Len(sorted) ELSE TopN)

\* (mutant) the division is not guarded
averageOrderValueUnguarded(totalOrderValue, completedOrders) ==
  [num |-> totalOrderValue, den |-> completedOrders]

\* completedOrders > 0 ? totalOrderValue / completedOrders : 0, as a fraction
averageOrderValue(totalOrderValue, completedOrders) ==
  IF completedOrders > 0 THEN [num |-> totalOrderValue, den |-> completedOrders]
  ELSE [num |-> 0, den |-> 1]

\* The gauge writes of collectOrderMetrics once getAllOrders has returned.
orderWrites(s, orders, apiStartTime, t) ==
  LET base == storeLabels(s)
      cur == [currency |-> Currency(s)]
      counts == statusCounts(orders)
      totalRevenue == revenue(orders, "all_time", t)
      revenueToday == revenue(orders, "today", t)
      revenueThisMonth == revenue(orders, "this_month", t)
      sales == productSales(orders)
      top == topProducts(sales)
      stSeq == SetToSeq(DOMAIN counts)
  IN <<Write("apiResponseTimeGauge", base @@ [endpoint |-> "orders"], t - apiStartTime),
       Write("totalOrdersGauge", base @@ [status |-> "all"] @@ cur, Len(orders))>>
     \o [i \in 1..Len(stSeq) |->
           Write("ordersByStatusGauge", base @@ [status |-> stSeq[i]] @@ cur,
                 counts[stSeq[i]])]
     \o <<Write("pendingOrdersGauge", base, countOf(counts, "pending")),
          Write("failedOrdersGauge", base, countOf(counts, "failed")),
          Write("processingOrdersGauge", base, countOf(counts, "processing")),
          Write("totalRevenueGauge", base @@ cur @@ [period |-> "all_time"], totalRevenue),
          Write("revenueTodayGauge", base @@ cur, revenueToday),
          Write("revenueThisMonthGauge", base @@ cur, revenueThisMonth),
          Write("averageOrderValueGauge", base @@ cur @@ [period |-> "all_time"],
                averageOrderValue(totalRevenue, countOf(counts, "completed")))>>
     \o [i \in 1..Len(top) |->
           Write("topProductsSoldGauge",
                 base @@ [product_id |-> toString(top[i]), product_name |-> sales[top[i]].name],
                 sales[top[i]].quantity)]

\* ------------------------------------------------- product reduction
LowStockThreshold == 10

\* parseInt(product.stock_quantity) || 0
stockQuantity(product) ==
  IF product.stock_quantity.null THEN 0 ELSE product.stock_quantity.v

isOutOfStock(product) ==
  product.stock_status = "outofstock" \/ stockQuantity(product) = 0

\* (mutant) the low-stock test is an `if` of its own
isLowStockOwnIf(product) ==
  product.manage_stock /\ stockQuantity(product) <= LowStockThreshold

\* the else-if branch of the stock test
isLowStock(product) ==
  /\ ~isOutOfStock(product)
  /\ product.manage_stock
  /\ stockQuantity(product) <= LowStockThreshold

\* The gauge writes of collectProductMetrics once getAllProducts has returned.
productWrites(s, products, apiStartTime, t) ==
  LET base == storeLabels(s)
      counts == statusCounts(products)
      stSeq == SetToSeq(DOMAIN counts)
      lowStockCount == Cardinality({i \in 1..Len(products) : isLowStock(products[i])})
      outOfStockCount == Cardinality({i \in 1..Len(products) : isOutOfStock(products[i])})
  IN <<Write("apiResponseTimeGauge", base @@ [endpoint |-> "products"], t - apiStartTime),
       Write("totalProductsGauge", base @@ [status |-> "all"], Len(products))>>
     \o [i \in 1..Len(stSeq) |->
           Write("totalProductsGauge", base @@ [status |-> stSeq[i]], counts[stSeq[i]])]
     \o <<Write("lowStockProductsGauge", base @@ [threshold |-> "10"], lowStockCount),
          Write("outOfStockProductsGauge", base, outOfStockCount)>>

\* ------------------------------------- the three reductions as promises
Branches == {"orders", "products", "customers"}

Pending(fields) == fields @@ [status |-> "pending", resps |-> <<>>]

\* collectOrderMetrics up to its first await; `after` is the instant 90 days
\* before now (the code sends it as an ISO string).
collectOrderMetricsStart(t) ==
  Pending([apiStartTime |-> t] @@ getAllStart("orders", [after |-> t - NinetyDaysMs]))

\* collectProductMetrics up to its first await
collectProductMetricsStart(t) ==
  Pending([apiStartTime |-> t] @@ getAllStart("products", <<>>))

\* (mutant) the customer reduction is not called with the other two
collectCustomerMetricsDeferred(t) ==
  Pending([apiStartTime |-> t, pc |-> "idle", phase |-> "first", page |-> 1,
           customersLen |-> 0, totalCustomers |-> 0, reqs |-> <<>>])

\* collectCustomerMetrics up to its first await: getCustomers({ per_page: 1 })
collectCustomerMetricsStart(t) ==
  Pending([apiStartTime |-> t, pc |-> "await", phase |-> "first", page |-> 1,
           customersLen |-> 0, totalCustomers |-> 0,
           reqs |-> <<getRequest("customers", [per_page |-> 1])>>])

\* collectOrderMetrics / collectProductMetrics resumed by a page response.
getAllBranchResume(s, b, br, ok, data, reg, t) ==
  LET st == getAllResume(br, ok, data)
  IN CASE st.pc = "await" -> [br |-> st, reg |-> reg]
       [] st.pc = "failed" ->
            \* catch: count the error under the branch's name and rethrow
            [br |-> [st EXCEPT !.status = "rejected"],
             reg |-> incScrapeErrors(reg, s, b)]
       [] st.pc = "done" ->
            [br |-> [st EXCEPT !.status = "fulfilled"],
             reg |-> applyWrites(reg,
                       IF b = "orders"
                       THEN orderWrites(s, st.ret.data, br.apiStartTime, t)
                       ELSE productWrites(s, st.ret.data, br.apiStartTime, t))]

CustomerPageSize == 100
CustomerPageCap == 10      \* "Limit to first 10 pages for performance"

\* (mutant) the walk has no page limit
walkContinuesUncapped(page) == TRUE

\* `page <= 10` in the walk's loop test
walkContinues(page) == page <= CustomerPageCap

\* (mutant) the count of the pages walked so far is kept
fallbackCountPartial(br) == br.totalCustomers

\* The inner catch: `totalCustomers = customers.length`, the length of the
\* first (per_page 1) fetch.
fallbackCount(br) == br.customersLen

\* (mutant) the customer count is written with a currency label
customersFinishCurrency(s, br, reg, n) ==
  [br |-> [br EXCEPT !.pc = "done", !.status = "fulfilled", !.totalCustomers = n],
   reg |-> gaugeSet(reg, "totalCustomersGauge",
                    storeLabels(s) @@ [currency |-> Currency(s)], n)]

\* totalCustomersGauge.set and the end of collectCustomerMetrics
customersFinish(s, br, reg, n) ==
  [br |-> [br EXCEPT !.pc = "done", !.status = "fulfilled", !.totalCustomers = n],
   reg |-> gaugeSet(reg, "totalCustomersGauge", storeLabels(s), n)]

customersRequest(br, ph, page, total) ==
  [br EXCEPT !.phase = ph, !.page = page, !.totalCustomers = total,
             !.reqs = Append(@, getRequest("customers",
                         IF page = 1 THEN [per_page |-> CustomerPageSize]
                         ELSE [per_page |-> CustomerPageSize, page |-> page]))]

\* (mutant) a failed first fetch is treated like a failed walk: a count of 0
\* is written and the reduction succeeds
customersFirstCatchFallback(s, br, reg) == customersFinish(s, br, reg, fallbackCount(br))

\* The outer catch, reached when the first fetch (per_page 1) fails: the error
\* is counted and rethrown.
customersFirstCatch(s, br, reg) ==
  [br |-> [br EXCEPT !.pc = "failed", !.status = "rejected"],
   reg |-> incScrapeErrors(reg, s, "customers")]

\* collectCustomerMetrics resumed by the response to its outstanding request.
customersResume(s, br, ok, data, reg, t) ==
  CASE br.phase = "first" ->
         IF ~ok THEN customersFirstCatch(s, br, reg)
         ELSE
           [br |-> customersRequest([br EXCEPT !.customersLen = Len(data)], "all", 1, 0),
            reg |-> gaugeSet(reg, "apiResponseTimeGauge",
                             storeLabels(s) @@ [endpoint |-> "customers"],
                             t - br.apiStartTime)]
    [] br.phase = "all" ->
         IF ~ok THEN customersFinish(s, br, reg, fallbackCount(br))
         ELSE IF Len(data) = CustomerPageSize /\ walkContinues(2)
              THEN [br |-> customersRequest(br, "walk", 2, Len(data)), reg |-> reg]
              ELSE customersFinish(s, br, reg, Len(data))
    [] br.phase = "walk" ->
         IF ~ok THEN customersFinish(s, br, reg, fallbackCount(br))
         ELSE IF Len(data) = 0 THEN customersFinish(s, br, reg, br.totalCustomers)
         ELSE LET total == br.totalCustomers + Len(data)
                  page == br.page + 1
              IN IF walkContinues(page)
                 THEN [br |-> customersRequest(br, "walk", page, total), reg |-> reg]
                 ELSE customersFinish(s, br, reg, total)

branchResume(s, b, br, ok, data, reg, t) ==
  IF b = "customers" THEN customersResume(s, br, ok, data, reg, t)
  ELSE getAllBranchResume(s, b, br, ok, data, reg, t)

\* ------------------------------------ MetricsCollector.collectStoreMetrics
\* Up to the await: the three reductions are called, each runs to its first
\* network request.
collectStoreMetricsStart(s, t, origin, cyc) ==
  [store |-> s, origin |-> origin, cycle |-> cyc, startTime |-> t, pc |-> "running",
   saw |-> upstream[s],      \* the record set the store holds during this run
   br |-> [orders |-> collectOrderMetricsStart(t),
           products |-> collectProductMetricsStart(t),
           customers |-> collectCustomerMetricsStart(t)]]

\* (mutant) Promise.all: rejected as soon as one promise is rejected
promiseAll(statuses) ==
  IF "rejected" \in statuses THEN "rejected"
  ELSE IF "pending" \in statuses THEN "pending" ELSE "fulfilled"

\* Promise.allSettled: pending while a promise is pending, then fulfilled
\* whatever the outcomes.
allSettled(statuses) == IF "pending" \in statuses THEN "pending" ELSE "fulfilled"

\* Math.floor(Date.now() / 1000)
floorSeconds(t) == t \div (1000 \div UnitMs)

\* (mutant) the success timestamp is written only when no reduction failed
collectStoreMetricsResumeStrict(coll, reg, t) ==
  LET s == coll.store
      statuses == {coll.br[b].status : b \in Branches}
  IN IF coll.pc # "running" \/ "pending" \in statuses THEN [coll |-> coll, reg |-> reg]
     ELSE [coll |-> [coll EXCEPT !.pc = "returned"],
           reg |-> IF "rejected" \in statuses THEN reg
                   ELSE gaugeSet(gaugeSet(reg, "lastScrapeSuccessGauge", storeLabels(s),
                                          floorSeconds(t)),
                                 "scrapeDurationGauge", storeLabels(s),
                                 t - coll.startTime)]

\* collectStoreMetrics at its await: it stays there while the awaited promise
\* is pending, then runs the try block's two gauge writes, or the catch block.
collectStoreMetricsResume(coll, reg, t) ==
  LET s == coll.store
      awaited == allSettled({coll.br[b].status : b \in Branches})
  IN CASE coll.pc # "running" \/ awaited = "pending" -> [coll |-> coll, reg |-> reg]
       [] coll.pc = "running" /\ awaited = "fulfilled" ->
            [coll |-> [coll EXCEPT !.pc = "returned"],
             reg |-> gaugeSet(gaugeSet(reg, "lastScrapeSuccessGauge", storeLabels(s),
                                       floorSeconds(t)),
                              "scrapeDurationGauge", storeLabels(s), t - coll.startTime)]
       [] OTHER ->
            [coll |-> [coll EXCEPT !.pc = "threw"],
             reg |-> incScrapeErrors(reg, s, "general")]

\* No direct call yet; n counts the direct calls, prev is how the one before
\* the current one ended.
NoCall == [store |-> None, pc |-> "idle", endpoint |-> None, n |-> 0, prev |-> "idle"]

\* ------------------------------------------------ SpecClient: one call
UpstreamsClient ==
  [orders : SeqsUpTo(NonEmptyPages(OrderPool \ {OrderC}), MaxUpPages),
   products : {<<>>, <<<<ProductA, ProductB>>, <<ProductB>>>>},
   customers : {0},
   endless : BOOLEAN]

EmptyUpstream == [orders |-> <<>>, products |-> <<>>, customers |-> 0, endless |-> FALSE]

\* ------------------------------------------------ stores.config.js
DefaultScrapeInterval == 300000
DefaultTimeout == 30000
DefaultMaxRetries == 3
MinScrapeInterval == 60000
MinTimeout == 5000

\* `parseInt(process.env[...]) || d`: an unset or unparsable variable gives NaN
\* and NaN and 0 give the default; the environment holds 0 for all three.
orDefault(n, d) == IF n = 0 THEN d ELSE n

\* The STOREi_* variables of a store that is completely and validly set.
CompleteEnv ==
  [url |-> "http://a", consumerKey |-> "ck", consumerSecret |-> "cs", enabled |-> "",
   scrapeInterval |-> 0, timeout |-> 0, maxRetries |-> 0]

\* loadStoreConfigurations: the stores STORE1, STORE2, ... up to the first
\* one that lacks its URL, key or secret (an unset variable is "").
RECURSIVE loadFrom(_, _)
loadFrom(env, storeIndex) ==
  IF storeIndex > Len(env) THEN <<>>
  ELSE LET e == env[storeIndex]
       IN IF e.url = "" \/ e.consumerKey = "" \/ e.consumerSecret = "" THEN <<>>
          ELSE <<[id |-> "store" \o toString(storeIndex),
                  url |-> e.url,
                  consumerKey |-> e.consumerKey,
                  consumerSecret |-> e.consumerSecret,
                  enabled |-> e.enabled # "false",
                  scrapeInterval |-> orDefault(e.scrapeInterval, DefaultScrapeInterval),
                  timeout |-> orDefault(e.timeout, DefaultTimeout),
                  maxRetries |-> orDefault(e.maxRetries, DefaultMaxRetries)]>>
               \o loadFrom(env, storeIndex + 1)

loadStoreConfigurations(env) == loadFrom(env, 1)

\* getEnabledStores: this.stores.filter(store => store.enabled)
getEnabledStores(stores) == SelectSeq(stores, LAMBDA store : store.enabled)

enabledIds(stores) == {store.id : store \in Range(getEnabledStores(stores))}

\* store.url.startsWith('http'), for the URLs of the model
startsWithHttp(url) == url \in {"http://a", "https://a"}

\* The body of validateStores' forEach: the messages pushed for one store.
storeErrors(store) ==
  (IF store.url = "" THEN <<"Store " \o store.id \o ": URL is required">> ELSE <<>>)
  \o (IF store.consumerKey = ""
      THEN <<"Store " \o store.id \o ": Consumer Key is required">> ELSE <<>>)
  \o (IF store.consumerSecret = ""
      THEN <<"Store " \o store.id \o ": Consumer Secret is required">> ELSE <<>>)
  \o (IF store.url # "" /\ ~startsWithHttp(store.url)
      THEN <<"Store " \o store.id \o ": URL must start with http:// or https://">>
      ELSE <<>>)
  \o (IF store.scrapeInterval < MinScrapeInterval
      THEN <<"Store " \o store.id \o ": Scrape interval must be at least 60000ms (1 minute)">>
      ELSE <<>>)
  \o (IF store.timeout < MinTimeout
      THEN <<"Store " \o store.id \o ": Timeout must be at least 5000ms (5 seconds)">>
      ELSE <<>>)

RECURSIVE errorsFrom(_, _)
errorsFrom(stores, i) ==
  IF i > Len(stores) THEN <<>> ELSE storeErrors(stores[i]) \o errorsFrom(stores, i + 1)

\* (mutant) validation stops at the first violation
validateStoresFirst(stores) ==
  IF errorsFrom(stores, 1) = <<>> THEN <<>> ELSE <<errorsFrom(stores, 1)[1]>>

\* validateStores: every store of the configuration, enabled or not, is
\* checked and every message is kept.
validateStores(stores) == errorsFrom(stores, 1)

\* The process right after the module is loaded: the configuration is read
\* (`enabled` and `valid` are what getEnabledStores and validateStores give for
\* it), no client, no probe, no cron job, no HTTP server, not exited.
NoExit == -1
configured(stores) ==
  [main |-> TRUE,           \* isMainModule: app.js is run, not imported
   stores |-> stores,
   enabled |-> enabledIds(stores),
   valid |-> (validateStores(stores) = <<>>),
   cronValid |-> TRUE,      \* cron.validate(SCRAPE_INTERVAL)
   validationErrors |-> <<>>,  \* what validateStores returned to initializeStores
   threw |-> {},            \* the stores whose client constructor threw
   probed |-> {},           \* the stores whose testConnection was called
   probeOk |-> {},          \* the stores whose testConnection returned true
   cronJob |-> "null", server |-> "none", exitCode |-> NoExit, error |-> None,
   collectResponse |-> [status |-> 0],  \* the last error answer of POST /collect/:storeId
   renders |-> 0,           \* GET /metrics requests answered
   rendered |-> None]       \* the last answer to GET /metrics

Constructed == configured(loadStoreConfigurations(<<CompleteEnv, CompleteEnv>>))

InitCommon ==
  /\ phase = "idle"
  /\ proc = Constructed
  /\ storeClients = {}
  /\ now = Epoch
  /\ call = NoCall
  /\ colls = <<>>
  /\ cycles = <<>>
  /\ manuals = 0
  /\ lastCollectionTime = None

MaxCalls == 2          \* direct calls, one after the other

\* STORE1_MAX_RETRIES is unset (the default 3 applies) or 1.
InitClient ==
  /\ phase = "idle"
  /\ \E r \in {0, 1} :
       proc = configured(loadStoreConfigurations(
                <<[CompleteEnv EXCEPT !.maxRetries = r], CompleteEnv>>))
  /\ storeClients = {}
  /\ now = Epoch
  /\ call = NoCall
  /\ colls = <<>>
  /\ cycles = <<>>
  /\ manuals = 0
  /\ lastCollectionTime = None
  /\ registry = initializeMetrics
  /\ upstream \in {u \in [Stores -> UpstreamsClient \cup {EmptyUpstream}] :
                     u["store2"] = EmptyUpstream /\ u["store1"] # EmptyUpstream}

clientUnchanged == UNCHANGED <<phase, proc, storeClients, upstream, now, colls, cycles,
                               manuals, registry, lastCollectionTime>>

\* A caller invokes getAllOrders(params) or getAllProducts(params), for the
\* first time or after the call before has ended.
ClientCall ==
  /\ call.pc \in {"idle", "done", "failed"}
  /\ call.n < MaxCalls
  /\ \E endpoint \in {"orders", "products"} :
       call' = [store |-> "store1", resps |-> <<>>, n |-> call.n + 1, prev |-> call.pc]
                 @@ getAllStart(endpoint, <<>>)
  /\ clientUnchanged

\* The response to the outstanding page request arrives.
ClientRespondOk ==
  /\ call.pc = "await"
  /\ call' = getAllResume([call EXCEPT !.resps = Append(@, "ok")], TRUE,
                        Serve(call.store, call.reqs[Len(call.reqs)]))
  /\ clientUnchanged

\* The outstanding page request fails (transport or API error).
ClientRespondFail ==
  /\ call.pc = "await"
  /\ call' = getAllResume([call EXCEPT !.resps = Append(@, "error")], FALSE, <<>>)
  /\ clientUnchanged

NextClient == ClientCall \/ ClientRespondOk \/ ClientRespondFail

SpecClient == InitClient /\ [][NextClient]_vars

\* ------------------------------------------------------ Spec: the exporter
Store1Data == [orders |-> <<<<OrderA, OrderB>>>>, products |-> <<>>,
               customers |-> 2, endless |-> FALSE]
Store2Data == [orders |-> <<>>, products |-> <<<<ProductA, ProductB, ProductC>>>>,
               customers |-> 0, endless |-> FALSE]

Init ==
  /\ InitCommon
  /\ registry = initializeMetrics
  /\ upstream = [s \in Stores |-> IF s = "store1" THEN Store1Data ELSE Store2Data]

\* The stores whose client construction may throw.
ConstructionMayFail == {"store2"}

\* initializeStores: a client is kept for every enabled store whose
\* construction does not throw; start() exits when none is left.  Spec takes
\* the process from here straight to its steady state (the cron job started,
\* the server listening); SpecApp below follows start() step by step.
initializeStores ==
  /\ phase = "idle"
  /\ \E constructed \in {S \in SUBSET Stores : Stores \ S \subseteq ConstructionMayFail} :
       IF constructed = {}
       THEN /\ phase' = "exited"
            /\ proc' = [proc EXCEPT !.threw = Stores, !.exitCode = 1,
                                    !.error = "No stores could be initialized"]
            /\ UNCHANGED storeClients
       ELSE /\ phase' = "running"
            /\ proc' = [proc EXCEPT !.threw = Stores \ constructed,
                                    !.probed = constructed, !.probeOk = constructed,
                                    !.cronJob = "started", !.server = "listening"]
            /\ storeClients' = constructed
  /\ UNCHANGED <<upstream, now, call, colls, cycles, manuals, registry,
                 lastCollectionTime>>

\* Time passes.
Tick ==
  /\ now < Epoch + MaxTicks * TickMs
  /\ now' = now + TickMs
  /\ UNCHANGED <<phase, proc, storeClients, upstream, call, colls, cycles, manuals,
                 registry, lastCollectionTime>>

\* The keys of a Map of stores, in insertion order (the configuration's order).
entries(clients) == IF clients = Stores THEN <<"store1", "store2">>
                    ELSE SetToSeq(clients)

\* (mutant) only the first store client is collected
clientSeqFirst == IF "store1" \in storeClients THEN <<"store1">> ELSE <<"store2">>

\* Array.from(this.storeClients.entries()): the stores in insertion order.
clientSeq == entries(storeClients)

\* (mutant) a cycle without store clients ends with an error
noClientsThrows(t, origin) ==
  [pc |-> "threw", origin |-> origin, startTime |-> t, completed |-> 0, failed |-> 0]

\* `if (this.storeClients.size === 0) { logger.warn(...); return; }`
noClients(t, origin) ==
  [pc |-> "done", origin |-> origin, startTime |-> t, completed |-> 0, failed |-> 0]

\* The cycles started by the cron job or a caller, not by start().
laterCycles == {k \in 1..Len(cycles) : cycles[k].origin # "initial"}

\* Who calls collectAllMetrics: the cron job's callback, or the module that
\* imported app.js.
cycleOrigin == IF phase = "imported" THEN "caller" ELSE "cron"

\* collectAllMetrics up to `await Promise.allSettled(collectionPromises)`: the
\* cron job fires while it is started.
collectAllMetrics ==
  /\ \/ phase \in {"running", "closing"} /\ proc.cronJob = "started"
     \/ phase = "imported"
  /\ Cardinality(laterCycles) < MaxCycles
  /\ Len(colls) + Cardinality(storeClients) <= MaxColls
  /\ IF storeClients = {} THEN
       /\ cycles' = Append(cycles, noClients(now, cycleOrigin))
       /\ UNCHANGED colls
     ELSE
       /\ cycles' = Append(cycles, [pc |-> "running", origin |-> cycleOrigin,
                                   startTime |-> now, completed |-> 0, failed |-> 0])
       /\ colls' = colls \o
            [i \in 1..Len(clientSeq) |->
               collectStoreMetricsStart(clientSeq[i], now, "cycle", Len(cycles) + 1)]
  /\ UNCHANGED <<phase, proc, storeClients, upstream, now, call, manuals, registry,
                 lastCollectionTime>>

\* POST /collect/:storeId -> app.collectStoreMetrics(storeId), for an
\* initialized store.
manualCollect ==
  /\ phase = "running"
  /\ manuals < MaxManual
  /\ Len(colls) < MaxColls
  /\ \E s \in storeClients :
       colls' = Append(colls, collectStoreMetricsStart(s, now, "manual", 0))
  /\ manuals' = manuals + 1
  /\ UNCHANGED <<phase, proc, storeClients, upstream, now, call, cycles, registry,
                 lastCollectionTime>>

cycleMembers(cs, k) == {c \in 1..Len(cs) : cs[c].cycle = k}

\* (mutant) the cycle ends as soon as one member collection has settled
finishCyclesEarly(cs, k, colls2) ==
  LET members == cycleMembers(colls2, k)
      completed == Cardinality({m \in members : colls2[m].pc = "returned"})
  IN IF k # 0 /\ cs[k].pc = "running" /\ \E m \in members : colls2[m].pc # "running"
     THEN [cs EXCEPT ![k].pc = "done", ![k].completed = completed,
                     ![k].failed = Cardinality(members) - completed]
     ELSE cs

\* (mutant) a store with a rejected reduction is counted as failed
finishCyclesStrict(cs, k, colls2) ==
  LET members == cycleMembers(colls2, k)
      completed == Cardinality({m \in members :
                                  /\ colls2[m].pc = "returned"
                                  /\ \A b \in Branches : colls2[m].br[b].status # "rejected"})
  IN IF k # 0 /\ \A m \in members : colls2[m].pc # "running"
     THEN [cs EXCEPT ![k].pc = "done", ![k].completed = completed,
                     ![k].failed = Cardinality(members) - completed]
     ELSE cs

\* collectAllMetrics after its await, once every member collection has settled:
\* completed and failed are counted and lastCollectionTime is set.
finishCycles(cs, k, colls2) ==
  LET members == cycleMembers(colls2, k)
      completed == Cardinality({m \in members : colls2[m].pc = "returned"})
  IN IF k # 0 /\ \A m \in members : colls2[m].pc # "running"
     THEN [cs EXCEPT ![k].pc = "done", ![k].completed = completed,
                     ![k].failed = Cardinality(members) - completed]
     ELSE cs

\* (mutant) start() does not await the initial cycle
startResumeEager(ph, pr, cs) ==
  IF ph = "initial"
  THEN IF pr.cronValid
       THEN [phase |-> "running",
             proc |-> [pr EXCEPT !.cronJob = "started", !.server = "listening"]]
       ELSE [phase |-> "exited",
             proc |-> [pr EXCEPT !.exitCode = 1,
                                 !.error = "Invalid scrape interval cron expression"]]
  ELSE [phase |-> ph, proc |-> pr]

\* start() after `await this.collectAllMetrics()`, once the initial cycle has
\* ended: setupCronJob (which throws on an invalid cron expression, and the
\* catch block exits), cronJob.start(), app.listen.
startResume(ph, pr, cs) ==
  IF ph = "initial" /\ \A k \in 1..Len(cs) : cs[k].origin = "initial" => cs[k].pc = "done"
  THEN IF pr.cronValid
       THEN [phase |-> "running",
             proc |-> [pr EXCEPT !.cronJob = "started", !.server = "listening"]]
       ELSE [phase |-> "exited",
             proc |-> [pr EXCEPT !.exitCode = 1,
                                 !.error = "Invalid scrape interval cron expression"]]
  ELSE [phase |-> ph, proc |-> pr]

\* The response (or the failure) of the outstanding request of reduction b of
\* collection c arrives; every promise chain it resumes runs to its next await:
\* the reduction, then collectStoreMetrics once its three reductions have
\* settled, then collectAllMetrics once all its stores have settled.
Respond(c, b, ok) ==
  /\ phase # "exited"
  /\ colls[c].br[b].pc = "await"
  /\ LET coll == colls[c]
         br == coll.br[b]
         req == br.reqs[Len(br.reqs)]
         logged == [br EXCEPT !.resps = Append(@, IF ok THEN "ok" ELSE "error")]
     IN \E r1 \in {branchResume(coll.store, b, logged, ok,
                     IF ok THEN Serve(coll.store, req) ELSE <<>>, registry, now)} :
        \E coll1 \in {[coll EXCEPT !.br[b] = r1.br]} :
        \E r2 \in {collectStoreMetricsResume(coll1, r1.reg, now)} :
          /\ colls' = [colls EXCEPT ![c] = r2.coll]
          /\ registry' = r2.reg
          /\ cycles' = finishCycles(cycles, coll.cycle, colls')
          /\ lastCollectionTime' =
               IF cycles' # cycles THEN now ELSE lastCollectionTime
          /\ phase' = startResume(phase, proc, cycles').phase
          /\ proc' = startResume(phase, proc, cycles').proc
  /\ UNCHANGED <<storeClients, upstream, now, call, manuals>>

RespondOk == \E c \in 1..Len(colls), b \in Branches : Respond(c, b, TRUE)

RespondFail == \E c \in 1..Len(colls), b \in Branches : Respond(c, b, FALSE)

Next ==
  \/ initializeStores
  \/ Tick
  \/ collectAllMetrics
  \/ manualCollect
  \/ RespondOk
  \/ RespondFail

Spec == Init /\ [][Next]_vars

\* --------------------------- SpecStore: one store, collected again and again
\* The record sets the store holds, one after the other.
Scenarios ==
  <<[orders |-> <<<<OrderA, OrderB>>>>,
     products |-> <<<<ProductA, ProductB, ProductD>>>>,
     customers |-> 2, endless |-> FALSE],
    [orders |-> <<<<OrderP>>>>,
     products |-> <<<<ProductA, ProductE>>>>,
     customers |-> 100, endless |-> FALSE],
    [orders |-> <<<<OrderBig, OrderC, OrderU>>>>,
     products |-> <<<<ProductC>>>>,
     customers |-> 250, endless |-> FALSE],
    [orders |-> <<>>, products |-> <<>>, customers |-> 1100, endless |-> FALSE]>>

successor(data) ==
  LET i == CHOOSE j \in 1..Len(Scenarios) : Scenarios[j] = data
  IN Scenarios[(i % Len(Scenarios)) + 1]

MaxRuns == 2           \* collections of the store, one after the other
MaxDays == 1           \* midnights between them

\* The steady state of a process with the single store store1.
InitStore ==
  /\ phase = "running"
  /\ proc = [configured(loadStoreConfigurations(
                  <<CompleteEnv, [CompleteEnv EXCEPT !.enabled = "false"]>>))
               EXCEPT !.probed = {"store1"}, !.probeOk = {"store1"},
                      !.cronJob = "started", !.server = "listening"]
  /\ storeClients = {"store1"}
  /\ now = Epoch
  /\ call = NoCall
  /\ colls = <<>>
  /\ cycles = <<>>
  /\ manuals = 0
  /\ lastCollectionTime = None
  /\ registry = initializeMetrics
  /\ \E i \in 1..Len(Scenarios) :
       upstream = [s \in Stores |-> IF s = "store1" THEN Scenarios[i] ELSE EmptyUpstream]

idle == \A c \in 1..Len(colls) : colls[c].pc # "running"

\* app.collectStoreMetrics(storeId), called after the previous call returned.
collectStoreMetrics ==
  /\ phase = "running"
  /\ idle
  /\ Len(colls) < MaxRuns
  /\ \E s \in storeClients :
       colls' = Append(colls, collectStoreMetricsStart(s, now, "manual", 0))
  /\ manuals' = manuals + 1
  /\ UNCHANGED <<phase, proc, storeClients, upstream, now, call, cycles, registry,
                 lastCollectionTime>>

\* Between two collections the shop's data changes: orders change status,
\* other products are sold, customers register.
upstreamChange ==
  /\ idle
  /\ Len(colls) >= 1
  /\ Len(colls) < MaxRuns
  /\ \E s \in storeClients :
       /\ upstream[s] = colls[Len(colls)].saw
       /\ upstream' = [upstream EXCEPT ![s] = successor(@)]
  /\ UNCHANGED <<phase, proc, storeClients, now, call, colls, cycles, manuals,
                 registry, lastCollectionTime>>

\* Between two collections a day passes.
nextDay ==
  /\ idle
  /\ Len(colls) >= 1
  /\ Len(colls) < MaxRuns
  /\ now < Epoch + MaxDays * DayMs
  /\ now' = now + DayMs
  /\ UNCHANGED <<phase, proc, storeClients, upstream, call, colls, cycles, manuals,
                 registry, lastCollectionTime>>

NextStore ==
  \/ collectStoreMetrics
  \/ upstreamChange
  \/ nextDay
  \/ RespondOk
  \/ RespondFail

SpecStore == InitStore /\ [][NextStore]_vars

\* --------------------------------------------- SpecApp: the process's life
\* (mutant) only the stores whose probe succeeded count
storesInitializedProbed(conf, constructed) ==
  IF conf.enabled = {} THEN "false"
  ELSE IF ~conf.valid THEN "throws"
  ELSE IF conf.probeOk = {} THEN "false" ELSE "true"

\* What initializeStores() gives start(): false without an enabled store,
\* an exception when validateStores() reports errors, else whether a client
\* was constructed (`this.storeClients.size > 0`).
storesInitialized(conf, constructed) ==
  IF conf.enabled = {} THEN "false"
  ELSE IF ~conf.valid THEN "throws"
  ELSE IF constructed = {} THEN "false" ELSE "true"

\* The environments the process is started in: each store enabled, disabled
\* or misconfigured, the second possibly not configured at all.
AppEnvs ==
  {<<>>} \cup
  {<<e1, e2>> : e1 \in {CompleteEnv, [CompleteEnv EXCEPT !.enabled = "false"],
                        [CompleteEnv EXCEPT !.url = "ftp://a"],
                        [CompleteEnv EXCEPT !.enabled = "false", !.timeout = 4999]},
                e2 \in {CompleteEnv, [CompleteEnv EXCEPT !.enabled = "false"],
                        [CompleteEnv EXCEPT !.url = ""]}}

\* The module is run directly (start() is called by the last lines of app.js)
\* or imported by another module, which may call the exported app's methods.
\* The configuration is read when the module is loaded.
InitApp ==
  /\ phase \in {"idle", "imported"}
  /\ \E env \in AppEnvs, cronValid \in BOOLEAN :
       proc = [configured(loadStoreConfigurations(env))
                 EXCEPT !.main = (phase = "idle"), !.cronValid = cronValid]
  /\ storeClients = {}
  /\ now = Epoch
  /\ call = NoCall
  /\ colls = <<>>
  /\ cycles = <<>>
  /\ manuals = 0
  /\ lastCollectionTime = None
  /\ registry = initializeMetrics
  /\ upstream = [s \in Stores |-> IF s = "store1" THEN Store1Data ELSE Store2Data]

\* (mutant) the client is put in the map before its construction can fail
constructClientsKeepFailed(enabled, threw) == enabled

\* The loop of initializeStores: `new WooCommerceClient(storeConf)` and then
\* `this.storeClients.set(...)`, skipped when the constructor throws.
constructClients(enabled, threw) == enabled \ threw

\* start() up to `await this.collectAllMetrics()`.  initializeStores returns
\* false without an enabled store and throws when validateStores reports
\* errors; else it constructs a client for every enabled store (the
\* constructor may throw) and probes every client (the server may answer or
\* not).  The probes are awaited one after the other; nothing but a signal
\* can run between them, so they are taken in one step.  Without a client the
\* process exits with code 1, else the initial cycle is started.
start ==
  /\ phase = "idle"
  /\ \E threw \in SUBSET proc.enabled, reachable \in SUBSET proc.enabled :
       LET attempted == proc.enabled # {} /\ proc.valid
           constructed == IF attempted THEN constructClients(proc.enabled, threw) ELSE {}
           probes == [s \in constructed |->
                        testConnectionResume(testConnectionStart, s \in reachable)]
           conf == [proc EXCEPT !.validationErrors =
                                  IF proc.enabled # {} THEN validateStores(proc.stores)
                                  ELSE <<>>,
                                !.threw = IF attempted THEN threw ELSE {},
                                !.probed = constructed,
                                !.probeOk = {s \in constructed :
                                               probes[s].ret = ValRet(TRUE)}]
           result == storesInitialized(conf, constructed)
       IN /\ storeClients' = constructed
          /\ IF result = "true" THEN
               /\ phase' = "initial"
               /\ proc' = conf
               /\ cycles' = Append(cycles, [pc |-> "running", origin |-> "initial",
                                           startTime |-> now, completed |-> 0,
                                           failed |-> 0])
               /\ colls' = colls \o
                    [i \in 1..Len(entries(constructed)) |->
                       collectStoreMetricsStart(entries(constructed)[i], now, "cycle",
                                                Len(cycles) + 1)]
             ELSE
               /\ phase' = "exited"
               /\ proc' = [conf EXCEPT !.exitCode = 1,
                                       !.error = IF result = "throws"
                                                 THEN "Invalid store configuration"
                                                 ELSE "No stores could be initialized"]
               /\ UNCHANGED <<cycles, colls>>
  /\ UNCHANGED <<upstream, now, call, manuals, registry, lastCollectionTime>>

\* ------------------------------------------- SpecServe: the HTTP routes
MaxRenders == 1        \* GET /metrics requests

\* The steady state of a process with the single store store1.
InitServe ==
  /\ phase = "running"
  /\ proc = [configured(loadStoreConfigurations(
                  <<CompleteEnv, [CompleteEnv EXCEPT !.enabled = "false"]>>))
               EXCEPT !.probed = {"store1"}, !.probeOk = {"store1"},
                      !.cronJob = "started", !.server = "listening"]
  /\ storeClients = {"store1"}
  /\ now = Epoch
  /\ call = NoCall
  /\ colls = <<>>
  /\ cycles = <<>>
  /\ manuals = 0
  /\ lastCollectionTime = None
  /\ registry = initializeMetrics
  /\ upstream = [s \in Stores |-> IF s = "store1" THEN Store1Data ELSE Store2Data]

\* (mutant) every store client gets a total of 0 until its orders are counted
metricsZeroFilled(reg) ==
  UNION {{[name |-> n, labels |-> l, value |-> reg[n][l]] : l \in DOMAIN reg[n]} :
           n \in SeriesNames}
  \cup {[name |-> "totalOrdersGauge",
          labels |-> storeLabels(s) @@ [status |-> "all"] @@ [currency |-> Currency(s)],
          value |-> 0] :
          s \in {x \in storeClients :
                   storeLabels(x) @@ [status |-> "all"] @@ [currency |-> Currency(x)]
                     \notin DOMAIN reg["totalOrdersGauge"]}}

\* register.metrics(): one sample for every cell of every series.
metrics(reg) ==
  UNION {{[name |-> n, labels |-> l, value |-> reg[n][l]] : l \in DOMAIN reg[n]} :
           n \in SeriesNames}

\* GET /metrics: the registry is rendered as it is now, whatever collections
\* are in flight, and sent with status 200.
getMetrics ==
  /\ proc.server = "listening"
  /\ proc.renders < MaxRenders
  /\ proc' = [proc EXCEPT !.renders = @ + 1,
                          !.rendered = [status |-> 200, body |-> metrics(registry)]]
  /\ UNCHANGED <<phase, storeClients, upstream, now, call, colls, cycles, manuals,
                 registry, lastCollectionTime>>

\* POST /test/:storeId: 404 without a client for the store, else the client's
\* testConnection is called.
testStore ==
  /\ proc.server = "listening"
  /\ call.pc \in {"idle", "done"}
  /\ call.n < MaxCalls
  /\ \E s \in Stores :
       call' = IF s \in storeClients
               THEN [store |-> s, resps |-> <<>>, n |-> call.n + 1, prev |-> call.pc]
                      @@ testConnectionStart
               ELSE [NoCall EXCEPT !.store = s, !.pc = "done", !.n = call.n + 1,
                                   !.prev = call.pc]
  /\ UNCHANGED <<phase, proc, storeClients, upstream, now, colls, cycles, manuals,
                 registry, lastCollectionTime>>

\* The status request of the probe is answered, or fails.
testRespond(ok) ==
  /\ call.pc = "await"
  /\ call.endpoint = "system_status"
  /\ call' = testConnectionResume(
               [call EXCEPT !.resps = Append(@, IF ok THEN "ok" ELSE "error")], ok)
  /\ UNCHANGED <<phase, proc, storeClients, upstream, now, colls, cycles, manuals,
                 registry, lastCollectionTime>>

testRespondOk == testRespond(TRUE)

testRespondFail == testRespond(FALSE)

\* The metrics route served while the cron job and POST /collect/:storeId
\* start collections.
NextServe ==
  \/ collectAllMetrics
  \/ manualCollect
  \/ RespondOk
  \/ RespondFail
  \/ getMetrics

SpecServe == InitServe /\ [][NextServe]_vars

\* ------------- SpecOverlap: the shop changes while it is being collected
\* The steady state of a process with the single store store1.
InitOverlap ==
  /\ phase = "running"
  /\ proc = [configured(loadStoreConfigurations(
                  <<CompleteEnv, [CompleteEnv EXCEPT !.enabled = "false"]>>))
               EXCEPT !.probed = {"store1"}, !.probeOk = {"store1"},
                      !.cronJob = "started", !.server = "listening"]
  /\ storeClients = {"store1"}
  /\ now = Epoch
  /\ call = NoCall
  /\ colls = <<>>
  /\ cycles = <<>>
  /\ manuals = 0
  /\ lastCollectionTime = None
  /\ registry = initializeMetrics
  /\ upstream = [s \in Stores |-> IF s = "store1" THEN Scenarios[1] ELSE EmptyUpstream]

\* The shop's data changes while a collection of the store is in flight: the
\* requests answered from now on see the new records.
upstreamChangeInFlight ==
  /\ \E c \in 1..Len(colls) : colls[c].pc = "running"
  /\ \E s \in storeClients :
       /\ upstream[s] = Scenarios[1]
       /\ upstream' = [upstream EXCEPT ![s] = successor(@)]
  /\ UNCHANGED <<phase, proc, storeClients, now, call, colls, cycles, manuals,
                 registry, lastCollectionTime>>

\* The cron job and POST /collect/:storeId start collections of the same
\* store that overlap, while the shop's data changes.
NextOverlap ==
  \/ collectAllMetrics
  \/ manualCollect
  \/ upstreamChangeInFlight
  \/ RespondOk
  \/ RespondFail

SpecOverlap == InitOverlap /\ [][NextOverlap]_vars

\* (mutant) a store id without a client is ignored
notFoundSilent(s) == [threw |-> FALSE, message |-> ""]

\* app.collectStoreMetrics for an id without a client:
\* throw new Error(`Store ${storeId} not found or not initialized`)
notFound(s) == [threw |-> TRUE, message |-> "Store " \o s \o " not found or not initialized"]

\* The answer of POST /collect/:storeId: the catch block sends status 500 with
\* the error's message.
collectAnswer(s, result) ==
  IF result.threw
  THEN [status |-> 500, error |-> "Collection failed", message |-> result.message]
  ELSE [status |-> 200, message |-> "Metrics collection completed for store: " \o s]

\* POST /collect/:storeId for a store id that has no client.
manualCollectUnknown ==
  /\ phase = "running"
  /\ manuals < MaxManual
  /\ \E s \in Stores \ storeClients :
       proc' = [proc EXCEPT !.collectResponse = collectAnswer(s, notFound(s))]
  /\ manuals' = manuals + 1
  /\ UNCHANGED <<phase, storeClients, upstream, now, call, colls, cycles, registry,
                 lastCollectionTime>>

\* The test route served while POST /collect/:storeId starts a collection.
NextTest ==
  \/ manualCollect
  \/ manualCollectUnknown
  \/ RespondOk
  \/ RespondFail
  \/ testStore
  \/ testRespondOk
  \/ testRespondFail

SpecTest == InitServe /\ [][NextTest]_vars

\* ------------------------------------- SpecConfig: configuration and startup
\* The STOREi_* variables the process may find: each set, unset or set to a
\* value at or below the limits validateStores checks.
StoreEnvs ==
  [url : {"", "ftp://a", "http://a"}, consumerKey : {"", "ck"},
   consumerSecret : {"", "cs"}, enabled : {"", "false"},
   scrapeInterval : {0, MinScrapeInterval - 1, MinScrapeInterval},
   timeout : {0, MinTimeout - 1, MinTimeout}, maxRetries : {0}]

InitConfig ==
  /\ phase = "idle"
  /\ \E e1 \in StoreEnvs, e2 \in StoreEnvs :
       proc = configured(loadStoreConfigurations(<<e1, e2>>))
  /\ storeClients = {}
  /\ now = Epoch
  /\ call = NoCall
  /\ colls = <<>>
  /\ cycles = <<>>
  /\ manuals = 0
  /\ lastCollectionTime = None
  /\ registry = initializeMetrics
  /\ upstream = [s \in Stores |-> IF s = "store1" THEN Store1Data ELSE Store2Data]

SpecConfig == InitConfig /\ [][start]_vars

\* (mutant) shutdown leaves the cron job running
stopCronForgotten(job) == job

\* `if (this.cronJob) { this.cronJob.stop(); }`
stopCron(job) == IF job = "null" THEN job ELSE "stopped"

\* SIGTERM / SIGINT: shutdown() stops the cron job if there is one, awaits
\* server.close if there is a server, and then the handler exits with code 0.
shutdown ==
  /\ phase \in {"imported", "initial", "running"}
  /\ LET stopped == [proc EXCEPT !.cronJob = stopCron(@)]
     IN IF proc.server = "listening"
        THEN phase' = "closing" /\ proc' = [stopped EXCEPT !.server = "closing"]
        ELSE phase' = "exited" /\ proc' = [stopped EXCEPT !.exitCode = 0]
  /\ UNCHANGED <<storeClients, upstream, now, call, colls, cycles, manuals, registry,
                 lastCollectionTime>>

\* server.close calls back once no connection is open, that is once every
\* POST /collect/:storeId being served has been answered; the signal handler
\* then calls process.exit(0).
serverClosed ==
  /\ phase = "closing"
  /\ \A c \in 1..Len(colls) : colls[c].origin = "manual" => colls[c].pc # "running"
  /\ phase' = "exited"
  /\ proc' = [proc EXCEPT !.server = "closed", !.exitCode = 0]
  /\ UNCHANGED <<storeClients, upstream, now, call, colls, cycles, manuals, registry,
                 lastCollectionTime>>

NextApp ==
  \/ start
  \/ collectAllMetrics
  \/ manualCollect
  \/ RespondOk
  \/ RespondFail
  \/ shutdown
  \/ serverClosed

SpecApp == InitApp /\ [][NextApp]_vars

\* ================================================================ claims
\* The page the server served for request i of the direct call.
served(i) == Serve(call.store, call.reqs[i])

RECURSIVE concatServed(_)
concatServed(k) == IF k = 0 THEN <<>> ELSE concatServed(k - 1) \o served(k)

\* C1: getAllOrders / getAllProducts request pages 1, 2, 3, ... with page size
\* 100; a further page is requested only after a non-empty page; the first
\* empty page ends the call without an error; the value returned is the
\* concatenation of the pages served, in page order, each page's records in
\* their order.
C1_PagesInOrder ==
  call.pc # "idle" =>
    LET n == Len(call.reqs)
        m == Len(call.resps)
    IN /\ \A i \in 1..n :
            /\ call.reqs[i].endpoint = call.endpoint
            /\ call.reqs[i].params.page = i
            /\ call.reqs[i].params.per_page = 100
       /\ \A i \in 1..(n - 1) : call.resps[i] = "ok" /\ served(i) # <<>>
       /\ (m >= 1 /\ call.resps[m] = "ok" /\ served(m) = <<>>) =>
            (call.pc = "done" /\ n = m /\ call.ret.kind = "value")
       /\ call.pc = "done" => call.ret = ValRet(concatServed(n))

\* Two different non-empty pages, then the empty page that ends the call.
C1_Witness ==
  /\ call.pc = "done"
  /\ Len(call.reqs) = 3
  /\ served(1) # served(2)
  /\ Len(served(1)) = 2
  /\ served(3) = <<>>
  /\ call.ret.kind = "value"

\* C2: against an upstream that never serves an empty page the call requests
\* at most 100 pages; when no request fails it ends after exactly the pages
\* 1..100 and returns the records of these pages, not an error.
C2_PageCeiling ==
  (call.pc # "idle" /\ upstream[call.store].endless) =>
    /\ Len(call.reqs) <= 100
    /\ call.pc = "await" => Len(call.resps) < 100
    /\ call.pc = "done" =>
         /\ Len(call.reqs) = 100
         /\ call.reqs[100].params.page = 100
         /\ call.ret.kind = "value"
         /\ call.ret.data = concatServed(100)
    /\ call.pc = "failed" => call.resps[Len(call.resps)] = "error"

C2_Witness ==
  /\ call.pc = "done"
  /\ upstream[call.store].endless
  /\ Len(call.resps) = 100
  /\ Len(call.ret.data) >= 100

\* ---------------------------------------------------- registry readers
hasCell(reg, series, labels) == labels \in DOMAIN reg[series]

errors(reg, s, b) ==
  LET l == storeLabels(s) @@ [error_type |-> b]
  IN IF hasCell(reg, "scrapeErrorsCounter", l) THEN reg["scrapeErrorsCounter"][l] ELSE 0

allLabels(s) == storeLabels(s) @@ [status |-> "all"]

orderTotalLabels(s) == allLabels(s) @@ [currency |-> Currency(s)]

\* The cells a reduction of store s creates when it succeeds.
ownCells(reg, s, b) ==
  CASE b = "orders" ->
         /\ hasCell(reg, "totalOrdersGauge", orderTotalLabels(s))
         /\ \A n \in {"pendingOrdersGauge", "failedOrdersGauge", "processingOrdersGauge"} :
              hasCell(reg, n, storeLabels(s))
         /\ \A n \in {"revenueTodayGauge", "revenueThisMonthGauge"} :
              hasCell(reg, n, storeLabels(s) @@ [currency |-> Currency(s)])
         /\ \A n \in {"totalRevenueGauge", "averageOrderValueGauge"} :
              hasCell(reg, n, storeLabels(s) @@ [currency |-> Currency(s)]
                                @@ [period |-> "all_time"])
    [] b = "products" ->
         /\ hasCell(reg, "totalProductsGauge", allLabels(s))
         /\ hasCell(reg, "lowStockProductsGauge", storeLabels(s) @@ [threshold |-> "10"])
         /\ hasCell(reg, "outOfStockProductsGauge", storeLabels(s))
    [] b = "customers" ->
         hasCell(reg, "totalCustomersGauge", storeLabels(s))

\* ... and the totals among them hold what reduction br computed.
ownWritten(reg, s, b, br) ==
  /\ ownCells(reg, s, b)
  /\ CASE b = "orders" -> reg["totalOrdersGauge"][orderTotalLabels(s)] = Len(br.ret.data)
       [] b = "products" -> reg["totalProductsGauge"][allLabels(s)] = Len(br.ret.data)
       [] b = "customers" -> reg["totalCustomersGauge"][storeLabels(s)] = br.totalCustomers

\* Every fetch of the collection succeeded.
allOk(coll) == \A b \in Branches : \A i \in 1..Len(coll.br[b].resps) : coll.br[b].resps[i] = "ok"

rejectedRuns(cs, s, b) ==
  {c \in 1..Len(cs) : cs[c].store = s /\ cs[c].br[b].status = "rejected"}

\* C3: when a page fetch of getAllOrders / getAllProducts fails, the call ends
\* with the error (nothing is returned), no further page is requested by that
\* call, then or later, and the step changes no series but the error counter
\* and the collection's timestamp and duration: the pages already collected
\* reach no metric.
C3_FailedFetchAborts ==
  [][\A c \in 1..Len(colls) : \A b \in {"orders", "products"} :
       LET old == colls[c].br[b]
           new == colls'[c].br[b]
       IN /\ (old.pc = "await" /\ Len(new.resps) > Len(old.resps)
                /\ new.resps[Len(new.resps)] = "error") =>
               /\ new.pc = "failed" /\ new.status = "rejected" /\ new.ret = ErrRet
               /\ new.reqs = old.reqs
               /\ \A n \in SeriesNames \ {"scrapeErrorsCounter", "lastScrapeSuccessGauge",
                                          "scrapeDurationGauge"} :
                    registry'[n] = registry[n]
          /\ old.pc = "failed" => new = old]_vars

\* A call that failed on page 2, after page 1 had been collected.
C3_Witness ==
  \E c \in 1..Len(colls) :
    /\ colls[c].br["orders"].resps = <<"ok", "error">>
    /\ colls[c].br["orders"].pc = "failed"
    /\ registry["totalOrdersGauge"] = <<>>

\* C4: a collection starts its three reductions together (each has its first
\* request in flight when the collection is created); a reduction that is still
\* pending keeps its request in flight and is still awaited by the collection
\* whatever the other two did; the step of one reduction changes no other
\* reduction of the collection; a reduction that succeeds has written its own
\* metrics.
C4_ReductionsIsolated ==
  [][\A c \in 1..Len(colls') :
       LET coll == colls'[c]
       IN /\ \A b \in Branches :
               /\ Len(coll.br[b].reqs) >= 1
               /\ coll.br[b].status = "pending" =>
                    (coll.pc = "running" /\ coll.br[b].pc = "await")
          /\ c > Len(colls) =>
               \A b \in Branches :
                 /\ coll.br[b].pc = "await"
                 /\ Len(coll.br[b].reqs) = 1
                 /\ coll.br[b].resps = <<>>
          /\ c <= Len(colls) =>
               /\ Cardinality({b \in Branches : colls[c].br[b] # coll.br[b]}) <= 1
               /\ \A b \in Branches :
                    (colls[c].br[b].status = "pending" /\ coll.br[b].status = "fulfilled")
                      => ownWritten(registry', coll.store, b, coll.br[b])]_vars

\* Two reductions failed, the third ran to its end and wrote its metric.
C4_Witness ==
  \E c \in 1..Len(colls) :
    /\ colls[c].br["orders"].status = "rejected"
    /\ colls[c].br["products"].status = "rejected"
    /\ colls[c].br["customers"].status = "fulfilled"
    /\ Len(colls[c].br["customers"].resps) = 2
    /\ hasCell(registry, "totalCustomersGauge", storeLabels(colls[c].store))

\* Every series cell a clean collection of store s leaves behind; the totals
\* are its own when no other collection of the store has run.
fullyWritten(reg, s, coll, alone) ==
  /\ \A b \in Branches :
       IF alone THEN ownWritten(reg, s, b, coll.br[b]) ELSE ownCells(reg, s, b)
  /\ \A st \in {r.status : r \in Range(coll.br["orders"].ret.data)} :
       hasCell(reg, "ordersByStatusGauge",
               storeLabels(s) @@ [status |-> st] @@ [currency |-> Currency(s)])
  /\ \A st \in {r.status : r \in Range(coll.br["products"].ret.data)} :
       hasCell(reg, "totalProductsGauge", storeLabels(s) @@ [status |-> st])
  /\ \A e \in Branches :
       hasCell(reg, "apiResponseTimeGauge", storeLabels(s) @@ [endpoint |-> e])
  /\ hasCell(reg, "lastScrapeSuccessGauge", storeLabels(s))
  /\ hasCell(reg, "scrapeDurationGauge", storeLabels(s))

\* C5: when a full cycle has ended, every store client has exactly one
\* collection of that cycle and it has ended; a store whose fetches all
\* succeeded has all its order, product and customer metrics written, whatever
\* happened to the other stores; a failed reduction of the cycle has added
\* exactly 1 to its store's error counter for that branch.
C5_CycleIsolatesStores ==
  \A k \in 1..Len(cycles) :
    cycles[k].pc = "done" =>
      \A s \in storeClients :
        LET ms == {m \in cycleMembers(colls, k) : colls[m].store = s}
        IN /\ Cardinality(ms) = 1
           /\ \A m \in ms :
                /\ colls[m].pc # "running"
                /\ allOk(colls[m]) =>
                     fullyWritten(registry, s, colls[m],
                                  \A c \in 1..Len(colls) : colls[c].store = s => c = m)
                /\ \A b \in Branches :
                     errors(registry, s, b) =
                       (IF colls[m].br[b].status = "rejected" THEN 1 ELSE 0)
                       + Cardinality(rejectedRuns(colls, s, b) \ ms)

\* A two-store cycle has ended; store1's order reduction failed, store2 is clean.
C5_Witness ==
  \E k \in 1..Len(cycles) :
    /\ cycles[k].pc = "done"
    /\ storeClients = Stores
    /\ \E m, n \in cycleMembers(colls, k) :
         /\ colls[m].store = "store1"
         /\ colls[m].br["orders"].status = "rejected"
         /\ errors(registry, "store1", "orders") = 1
         /\ colls[n].store = "store2"
         /\ allOk(colls[n])
         /\ fullyWritten(registry, "store2", colls[n], TRUE)

\* C6: for every store and branch the scrape-error counter cell labelled with
\* the branch equals the number of executions of that branch that failed, over
\* all collections so far, overlapping or not; no other error cell exists.
C6_ErrorCounterCounts ==
  /\ \A s \in Stores, b \in Branches :
       errors(registry, s, b) = Cardinality(rejectedRuns(colls, s, b))
  /\ \A l \in DOMAIN registry["scrapeErrorsCounter"] :
       /\ l.error_type \in Branches
       /\ l.store_id \in Stores
       /\ l = storeLabels(l.store_id) @@ [error_type |-> l.error_type]

\* Two collections of one store failed the same branch.
C6_Witness ==
  \E s \in Stores, b \in Branches :
    /\ errors(registry, s, b) = 2
    /\ Cardinality(rejectedRuns(colls, s, b)) = 2

C8_LastSuccessOnlyOnSuccess ==
  [][\A c \in 1..Len(colls) :
       (colls[c].pc = "running" /\ colls'[c].pc # "running"
          /\ \E b \in Branches : colls'[c].br[b].status = "rejected") =>
         registry'["lastScrapeSuccessGauge"] = registry["lastScrapeSuccessGauge"]]_vars

\* C9: the step that starts a full cycle creates exactly one collection per
\* store client, all running with their requests in flight; the cycle is done
\* exactly when every one of its collections has ended; a step of one
\* collection changes no other collection; a running collection always has a
\* request in flight, whatever the other stores did.
C9_CycleFanOut ==
  [][/\ Len(cycles') > Len(cycles) =>
          LET k == Len(cycles')
              new == (Len(colls) + 1)..Len(colls')
          IN /\ Cardinality(new) = Cardinality(storeClients)
             /\ \A s \in storeClients :
                  \E c \in new : colls'[c].store = s /\ colls'[c].cycle = k
             /\ \A c \in new :
                  /\ colls'[c].pc = "running"
                  /\ \A b \in Branches : colls'[c].br[b].pc = "await"
     /\ \A k \in 1..Len(cycles') :
          (cycles'[k].pc = "done") <=>
            (\A m \in cycleMembers(colls', k) : colls'[m].pc # "running")
     /\ \A c \in 1..Len(colls) :
          colls'[c] # colls[c] =>
            \A d \in (1..Len(colls)) \ {c} : colls'[d] = colls[d]
     /\ \A c \in 1..Len(colls') :
          colls'[c].pc = "running" => \E b \in Branches : colls'[c].br[b].pc = "await"]_vars

\* A two-store cycle has ended: every fetch of store1 failed, store2 is clean.
C9_Witness ==
  \E k \in 1..Len(cycles) :
    /\ cycles[k].pc = "done"
    /\ \E m, n \in cycleMembers(colls, k) :
         /\ m # n
         /\ \A b \in Branches : colls[m].br[b].status = "rejected"
         /\ \A b \in Branches : colls[n].br[b].status = "fulfilled"
         /\ allOk(colls[n])

\* C10: collectStoreMetrics never throws, whichever fetches failed: every
\* collection is running or has returned, the 'general' error cell is never
\* written, and a full cycle counts every store as completed.
C10_NoThrow ==
  /\ \A c \in 1..Len(colls) : colls[c].pc \in {"running", "returned"}
  /\ \A s \in Stores : errors(registry, s, "general") = 0
  /\ \A k \in 1..Len(cycles) :
       cycles[k].pc = "done" =>
         /\ cycles[k].failed = 0
         /\ cycles[k].completed = Cardinality(cycleMembers(colls, k))

\* A single-store (manual) collection returned although every fetch failed.
C10_Witness ==
  \E c \in 1..Len(colls) :
    /\ colls[c].origin = "manual"
    /\ colls[c].pc = "returned"
    /\ \A b \in Branches : colls[c].br[b].resps = <<"error">>

\* C11: a full cycle run while there is no store client completes at once and
\* without an error, starts no collection (so issues no fetch) and leaves every
\* metric series as it was; no fetch is ever in flight without a store client.
C11_NoStoresNoEffect ==
  [][/\ (Len(cycles') > Len(cycles) /\ storeClients' = {}) =>
          /\ cycles'[Len(cycles')].pc = "done"
          /\ colls' = colls
          /\ registry' = registry
     /\ storeClients' = {} => colls' = <<>>]_vars

\* A cycle has run in a process without store clients.
C11_Witness ==
  /\ storeClients = {}
  /\ Len(cycles) = 1
  /\ cycles[1].pc = "done"
  /\ registry = initializeMetrics

\* The reduction b of collection c succeeds in this step.
succeeds(c, b) ==
  /\ c <= Len(colls)
  /\ colls[c].br[b].status = "pending"
  /\ colls'[c].br[b].status = "fulfilled"

countStatus(records, st) == Cardinality({i \in 1..Len(records) : records[i].status = st})

\* C12: when the order (resp. product) reduction of a store succeeds, every
\* per-status cell of the store, whatever its status label, holds the number of
\* orders (resp. products) with that status in the record set just fetched: a
\* status of an earlier cycle that is absent now does not show its old count.
C12_GaugesOverwritten ==
  [][\A c \in 1..Len(colls) :
       LET s == colls[c].store
       IN /\ succeeds(c, "orders") =>
               \A l \in DOMAIN registry'["ordersByStatusGauge"] :
                 l.store_id = s =>
                   registry'["ordersByStatusGauge"][l]
                     = countStatus(colls'[c].br["orders"].ret.data, l.status)
          /\ succeeds(c, "products") =>
               \A l \in DOMAIN registry'["totalProductsGauge"] :
                 (l.store_id = s /\ l.status # "all") =>
                   registry'["totalProductsGauge"][l]
                     = countStatus(colls'[c].br["products"].ret.data, l.status)]_vars

\* C13: the top-products series holds at most 10 entries for each store,
\* whatever was sold in the cycles so far.
C13_TopProductsAtMostTen ==
  \A s \in Stores :
    Cardinality({l \in DOMAIN registry["topProductsSoldGauge"] : l.store_id = s}) <= 10

\* The series a run may change although the shop's data did not.
RunSeries == {"lastScrapeSuccessGauge", "scrapeDurationGauge", "apiResponseTimeGauge"}

\* The series whose value depends on the day of the run.
DaySeries == {"revenueTodayGauge", "revenueThisMonthGauge"}

\* Collection c is a re-run: it follows a collection of the same store that
\* ran against the same record set, and no fetch of either has failed.
rerun(cs, c) ==
  /\ c >= 2
  /\ cs[c].store = cs[c - 1].store
  /\ cs[c].saw = cs[c - 1].saw
  /\ cs[c - 1].pc = "returned"
  /\ allOk(cs[c - 1])
  /\ allOk(cs[c])

avgLabels(s) == storeLabels(s) @@ [currency |-> Currency(s)] @@ [period |-> "all_time"]

\* C15: when an order reduction succeeds, the average order value it writes is
\* 0 if the fetched set holds no completed order, and else the revenue of the
\* completed orders over their number; the divisor is never 0.
C15_AverageOrderValue ==
  [][\A c \in 1..Len(colls) :
       succeeds(c, "orders") =>
         LET s == colls[c].store
             completed == countStatus(colls'[c].br["orders"].ret.data, "completed")
             avg == registry'["averageOrderValueGauge"][avgLabels(s)]
         IN /\ avg.den >= 1
            /\ completed = 0 => avg.num = 0
            /\ completed > 0 =>
                 /\ avg.den = completed
                 /\ avg.num = registry'["totalRevenueGauge"][avgLabels(s)]]_vars

\* Orders were fetched, none of them completed, and the average is 0.
C15_Witness ==
  \E c \in 1..Len(colls) :
    /\ colls[c].br["orders"].status = "fulfilled"
    /\ colls[c].br["orders"].ret.data = <<OrderP>>
    /\ Len(colls) = 1
    /\ registry["averageOrderValueGauge"][avgLabels("store1")] = [num |-> 0, den |-> 1]

outOfStockSet(products) ==
  {i \in 1..Len(products) :
     \/ products[i].stock_status = "outofstock"
     \/ products[i].stock_quantity = Null
     \/ products[i].stock_quantity = Num(0)}

lowStockSet(products) ==
  {i \in 1..Len(products) :
     /\ products[i].manage_stock
     /\ products[i].stock_quantity # Null
     /\ products[i].stock_quantity.v <= 10}

\* C16: when a product reduction succeeds, outOfStock counts the products
\* whose stock status is 'outofstock' or whose quantity is 0, lowStock counts
\* the tracked products with a quantity of at most 10 that are not among them:
\* no product is counted by both.
C16_StockExclusive ==
  [][\A c \in 1..Len(colls) :
       succeeds(c, "products") =>
         LET s == colls[c].store
             products == colls'[c].br["products"].ret.data
             out == registry'["outOfStockProductsGauge"][storeLabels(s)]
             low == registry'["lowStockProductsGauge"][storeLabels(s) @@ [threshold |-> "10"]]
         IN /\ out = Cardinality(outOfStockSet(products))
            /\ low = Cardinality(lowStockSet(products) \ outOfStockSet(products))
            /\ out + low <= Len(products)]_vars

\* A product marked out of stock with a small quantity left was counted once.
C16_Witness ==
  \E c \in 1..Len(colls) :
    /\ colls[c].br["products"].status = "fulfilled"
    /\ colls[c].br["products"].ret.data = <<ProductA, ProductB, ProductD>>
    /\ Len(colls) = 1
    /\ registry["outOfStockProductsGauge"][storeLabels("store1")] = 2
    /\ registry["lowStockProductsGauge"][storeLabels("store1") @@ [threshold |-> "10"]] = 1

Min(a, b) == IF a < b THEN a ELSE b

\* C17: the customer count of a store never exceeds 1000, no customer request
\* asks for a page beyond 10, and a customer reduction none of whose fetches
\* failed writes min(N, 1000) for a store with N customers.
C17_CustomerCap ==
  [][\A c \in 1..Len(colls') :
       LET s == colls'[c].store
           br == colls'[c].br["customers"]
       IN /\ \A i \in 1..Len(br.reqs) :
               /\ br.reqs[i].params.page <= 10
               /\ br.reqs[i].params.per_page \in {1, 100}
          /\ hasCell(registry', "totalCustomersGauge", storeLabels(s)) =>
               registry'["totalCustomersGauge"][storeLabels(s)] <= 1000
          /\ (succeeds(c, "customers") /\ \A i \in 1..Len(br.resps) : br.resps[i] = "ok") =>
               registry'["totalCustomersGauge"][storeLabels(s)]
                 = Min(colls'[c].saw.customers, 1000)]_vars

\* A store with more than 1000 customers was counted up to page 10.
C17_Witness ==
  \E c \in 1..Len(colls) :
    /\ colls[c].saw.customers > 1000
    /\ colls[c].br["customers"].status = "fulfilled"
    /\ Len(colls[c].br["customers"].resps) = 11
    /\ \A i \in 1..11 : colls[c].br["customers"].resps[i] = "ok"
    /\ colls[c].br["customers"].reqs[11].params.page = 10
    /\ Len(colls) = 1
    /\ registry["totalCustomersGauge"][storeLabels("store1")] = 1000

\* C18: when a fetch of the counting walk (any customer fetch after the first)
\* fails, the customer reduction is fulfilled in that step, the 'customers'
\* error counter stays as it was, the collection goes on (it never throws) and
\* totalCustomers is the number of records of the first, single-record fetch.
C18_CustomerFallback ==
  [][\A c \in 1..Len(colls) :
       LET s == colls[c].store
           old == colls[c].br["customers"]
           new == colls'[c].br["customers"]
       IN (old.pc = "await" /\ Len(old.resps) >= 1 /\ Len(new.resps) > Len(old.resps)
             /\ new.resps[Len(new.resps)] = "error") =>
            /\ new.status = "fulfilled"
            /\ new.reqs = old.reqs
            /\ errors(registry', s, "customers") = errors(registry, s, "customers")
            /\ colls'[c].pc \in {"running", "returned"}
            /\ registry'["totalCustomersGauge"][storeLabels(s)]
                 = Len(Serve(s, old.reqs[1]))
            /\ Len(Serve(s, old.reqs[1])) <= 1]_vars

\* The walk failed on page 3, after 200 customers had been counted.
C18_Witness ==
  \E c \in 1..Len(colls) :
    /\ colls[c].br["customers"].resps = <<"ok", "ok", "ok", "error">>
    /\ colls[c].br["customers"].status = "fulfilled"
    /\ colls[c].br["customers"].totalCustomers = 1
    /\ Len(colls) = 1
    /\ registry["totalCustomersGauge"][storeLabels("store1")] = 1
    /\ errors(registry, "store1", "customers") = 0

\* C19: when the process exits after a termination signal, no collection
\* cycle and no single-store collection is still in flight.
C19_ExitAfterDrain ==
  [][(phase # "exited" /\ phase' = "exited" /\ proc'.exitCode = 0) =>
       /\ \A k \in 1..Len(cycles') : cycles'[k].pc # "running"
       /\ \A c \in 1..Len(colls') : colls'[c].pc # "running"]_vars

started == proc.main /\ phase # "idle"

\* C20 as stated: a started process has exited with failure exactly when it
\* has no store client.
C20_FatalIffNoClient ==
  started => (proc.exitCode = 1 <=> storeClients = {})

\* C20 as amended: without a store client (no enabled store, an invalid store
\* configuration, every construction throwing) the process has exited with
\* failure, and no cycle ran, no cron job was created and no server listens;
\* with a client it exits with failure only when the scrape interval is no
\* cron expression, after the initial cycle has ended and still without cron
\* job and server; the stores whose probe failed are among the clients.
C20_StartupFatal ==
  started =>
    /\ storeClients \subseteq proc.enabled
    /\ proc.probeOk \subseteq storeClients
    /\ storeClients = {} =>
         /\ proc.exitCode = 1
         /\ cycles = <<>> /\ colls = <<>>
    /\ proc.exitCode = 1 =>
         /\ storeClients = {} \/ ~proc.cronValid
         /\ proc.cronJob = "null" /\ proc.server = "none"
         /\ \A k \in 1..Len(cycles) : cycles[k].origin = "initial" /\ cycles[k].pc = "done"
         /\ \A c \in 1..Len(colls) : colls[c].pc # "running"
    /\ (storeClients # {} /\ proc.cronValid) => proc.exitCode # 1
    /\ storeClients # {} =>
         \A s \in storeClients : \E c \in 1..Len(colls) : colls[c].store = s

\* Both probes failed; the process serves and has collected both stores.
C20_Witness ==
  /\ phase = "running"
  /\ storeClients = Stores
  /\ proc.probeOk = {}
  /\ proc.server = "listening"
  /\ proc.cronJob = "started"
  /\ \A s \in Stores : hasCell(registry, "lastScrapeSuccessGauge", storeLabels(s))

\* The collections of store s whose reduction b fails in this step.
rejectedNow(s, b) ==
  {c \in 1..Len(colls) : /\ colls[c].store = s
                         /\ colls[c].br[b].status = "pending"
                         /\ colls'[c].br[b].status = "rejected"}

\* Two collections of store s are in flight.
overlap(c, d) ==
  /\ c # d
  /\ colls[c].store = colls[d].store
  /\ colls[c].pc = "running"
  /\ colls[d].pc = "running"

\* C21: every failure of a reduction adds exactly 1 to the error cell of its
\* store and branch, also while another collection of the same store is in
\* flight, and nothing else changes the cell: two overlapping collections that
\* fail the same branch raise it by 2.
C21_ConcurrentIncrements ==
  [][\A s \in Stores, b \in Branches :
       errors(registry', s, b) = errors(registry, s, b) + Cardinality(rejectedNow(s, b))]_vars

\* A manual collection and a cycle's collection of one store, both in flight,
\* have both failed their order reduction.
C21_Witness ==
  \E c, d \in 1..Len(colls) :
    /\ overlap(c, d)
    /\ colls[c].origin = "manual" /\ colls[d].origin = "cycle"
    /\ colls[c].br["orders"].status = "rejected"
    /\ colls[d].br["orders"].status = "rejected"
    /\ errors(registry, colls[c].store, "orders") = 2

\* The value a cell of the store holds after the order reduction of a
\* collection: computed from the records that collection fetched.
writtenByOrders(reg, s, data) ==
  /\ reg["totalOrdersGauge"][orderTotalLabels(s)] = Len(data)
  /\ \A st \in {"pending", "completed"} :
       countStatus(data, st) > 0 =>
         reg["ordersByStatusGauge"][storeLabels(s) @@ [status |-> st]
                                      @@ [currency |-> Currency(s)]] = countStatus(data, st)
  /\ reg["pendingOrdersGauge"][storeLabels(s)] = countStatus(data, "pending")

\* C22: the step in which a reduction of a collection succeeds leaves in the
\* cells it writes the values of that collection alone, whatever an overlapping
\* collection of the same store wrote there before; a step in which no
\* reduction of the store succeeds changes none of the store's data cells.  So
\* every cell holds what its last writer wrote, never a sum or a blend.
C22_LastWriterWins ==
  [][\A c \in 1..Len(colls) :
       LET s == colls[c].store
           new == colls'[c].br
       IN /\ succeeds(c, "orders") => writtenByOrders(registry', s, new["orders"].ret.data)
          /\ succeeds(c, "products") =>
               registry'["totalProductsGauge"][allLabels(s)] = Len(new["products"].ret.data)
          /\ succeeds(c, "customers") =>
               registry'["totalCustomersGauge"][storeLabels(s)] = new["customers"].totalCustomers
          /\ (colls'[c] # colls[c] /\ \A b \in Branches : ~succeeds(c, b)) =>
               \A n \in SeriesNames \ {"lastScrapeSuccessGauge", "scrapeDurationGauge",
                                        "apiResponseTimeGauge", "scrapeErrorsCounter"} :
                 registry'[n] = registry[n]]_vars

\* Two overlapping collections of one store counted 2 customers and then 1
\* (the fallback); the cell holds the later value.
C22_Witness ==
  \E c, d \in 1..Len(colls) :
    /\ overlap(c, d)
    /\ colls[c].br["customers"].status = "fulfilled"
    /\ colls[d].br["customers"].status = "fulfilled"
    /\ colls[c].br["customers"].totalCustomers = 2
    /\ colls[d].br["customers"].totalCustomers = 1
    /\ registry["totalCustomersGauge"][storeLabels(colls[c].store)] = 1

\* The lifecycle stage of a process phase: Idle, Initializing, SteadyState,
\* ShuttingDown, Stopped.  A module that is only imported stays Idle.
stage(ph) ==
  CASE ph \in {"idle", "imported"} -> 0
    [] ph = "initial" -> 1
    [] ph = "running" -> 2
    [] ph = "closing" -> 3
    [] ph = "exited" -> 4

\* A cycle is started by the cron job in this step.
scheduledCycleStarts ==
  /\ Len(cycles') > Len(cycles)
  /\ cycles'[Len(cycles')].origin = "cron"

\* C26: the process never goes back to an earlier lifecycle stage, and the
\* cron job starts a cycle only in the steady state: not before start() has
\* finished initializing, not once shutdown has begun.
C26_LifecycleOrder ==
  [][/\ stage(phase') >= stage(phase)
     /\ scheduledCycleStarts => (phase = "running" /\ phase' = "running")]_vars

\* The process went through every stage: a cron cycle ran in the steady state,
\* a signal closed the server, the process exited with code 0.
C26_Witness ==
  /\ phase = "exited"
  /\ proc.exitCode = 0
  /\ proc.server = "closed"
  /\ proc.cronJob = "stopped"
  /\ \E k \in 1..Len(cycles) : cycles[k].origin = "cron"

\* The initial cycle has ended: collectAllMetrics returned and each of its
\* collections has.
initialCycleDone ==
  \E k \in 1..Len(cycles) :
    /\ cycles[k].origin = "initial"
    /\ cycles[k].pc = "done"
    /\ \A c \in cycleMembers(colls, k) : colls[c].pc # "running"

\* C27: start() runs exactly one full cycle and only when that cycle has ended
\* is the cron job created and started and does the server listen; every
\* cron cycle and every manual collection starts after it.
C27_InitialCycleFirst ==
  proc.main =>
    /\ Cardinality({k \in 1..Len(cycles) : cycles[k].origin = "initial"}) <= 1
    /\ (\/ proc.cronJob # "null"
        \/ proc.server # "none"
        \/ \E k \in 1..Len(cycles) : cycles[k].origin = "cron"
        \/ \E c \in 1..Len(colls) : colls[c].origin = "manual") => initialCycleDone

\* The server listens and the cron job runs after an initial cycle over both
\* stores, in which a reduction failed.
C27_Witness ==
  /\ proc.main
  /\ proc.cronJob = "started"
  /\ proc.server = "listening"
  /\ \E k \in 1..Len(cycles) :
       /\ cycles[k].origin = "initial"
       /\ cycles[k].completed = 2
  /\ \E c \in 1..Len(colls) : colls[c].br["orders"].status = "rejected"

\* The active store set initialization must leave: the enabled stores whose
\* client constructor did not throw, none when validation failed.
activeStores ==
  IF proc.valid THEN enabledIds(proc.stores) \ proc.threw ELSE {}

\* C28: from the end of initialization on the map of store clients holds
\* exactly the enabled stores whose construction succeeded and never changes;
\* every probe and every collection (so every fetch) is for a store in it.
C28_ActiveSetFixed ==
  [][/\ (proc'.main /\ phase' # "idle") =>
          /\ storeClients' = activeStores'
          /\ proc'.probed \subseteq storeClients'
          /\ \A c \in 1..Len(colls') : colls'[c].store \in storeClients'
     /\ started => storeClients' = storeClients]_vars

\* store2 is enabled but its client could not be constructed; the initial
\* cycle and a later collection have run for store1 alone.
C28_Witness ==
  /\ started
  /\ proc.enabled = Stores
  /\ proc.threw = {"store2"}
  /\ storeClients = {"store1"}
  /\ Len(colls) = 2
  /\ \A c \in 1..Len(colls) : colls[c].pc = "returned"

\* What the configuration rules forbid, stated per store and rule.
Rules == {"url", "consumerKey", "consumerSecret", "urlFormat", "scrapeInterval", "timeout"}

violates(store, rule) ==
  CASE rule = "url" -> store.url = ""
    [] rule = "consumerKey" -> store.consumerKey = ""
    [] rule = "consumerSecret" -> store.consumerSecret = ""
    [] rule = "urlFormat" -> store.url \in {"ftp://a"}
    [] rule = "scrapeInterval" -> store.scrapeInterval <= 59999
    [] rule = "timeout" -> store.timeout <= 4999

message(store, rule) ==
  "Store " \o store.id \o ": " \o
  (CASE rule = "url" -> "URL is required"
     [] rule = "consumerKey" -> "Consumer Key is required"
     [] rule = "consumerSecret" -> "Consumer Secret is required"
     [] rule = "urlFormat" -> "URL must start with http:// or https://"
     [] rule = "scrapeInterval" -> "Scrape interval must be at least 60000ms (1 minute)"
     [] rule = "timeout" -> "Timeout must be at least 5000ms (5 seconds)")

violations(stores) ==
  {<<i, rule>> \in (1..Len(stores)) \X Rules : violates(stores[i], rule)}

\* The list validation returned holds one message for every violation of every
\* configured store, and nothing else.
allCollected(stores, errs) ==
  /\ Len(errs) = Cardinality(violations(stores))
  /\ Range(errs) = {message(stores[v[1]], v[2]) : v \in violations(stores)}

\* Startup was aborted with the configuration error before any client was
\* constructed.
abortedInvalid ==
  /\ phase = "exited"
  /\ proc.exitCode = 1
  /\ proc.error = "Invalid store configuration"
  /\ storeClients = {} /\ proc.threw = {} /\ proc.probed = {}
  /\ colls = <<>> /\ cycles = <<>>

\* C29 as claimed: whatever the configuration, startup validates every
\* configured store, collects every violation, and aborts with the
\* configuration error when there is one.
C29_ValidationAborts ==
  started =>
    /\ allCollected(proc.stores, proc.validationErrors)
    /\ violations(proc.stores) # {} => abortedInvalid

\* C29 (amended): when at least one store is enabled, startup validates every
\* configured store, enabled or not, collects every violation, and aborts with
\* the configuration error before any client is constructed when there is one;
\* without an enabled store nothing is validated and startup aborts for the
\* lack of stores.
C29_ValidationAbortsWhenEnabled ==
  started =>
    IF enabledIds(proc.stores) # {}
    THEN /\ allCollected(proc.stores, proc.validationErrors)
         /\ violations(proc.stores) # {} => abortedInvalid
    ELSE /\ proc.validationErrors = <<>>
         /\ phase = "exited" /\ proc.exitCode = 1
         /\ proc.error = "No stores could be initialized"

\* An enabled store with two violations and a disabled store with a third:
\* the three messages are collected and startup is aborted.
C29_Witness ==
  /\ started
  /\ Len(proc.stores) = 2
  /\ proc.stores[1].enabled /\ ~proc.stores[2].enabled
  /\ Cardinality({v \in violations(proc.stores) : v[1] = 1}) = 2
  /\ Cardinality({v \in violations(proc.stores) : v[1] = 2}) = 1
  /\ Len(proc.validationErrors) = 3
  /\ abortedInvalid

\* The total of an order in cents as the claim counts it: the number the total
\* spells, 0 when it spells none or is absent.
cents(order) ==
  CASE order.total = "10.00" -> 1000
    [] order.total = "25.50" -> 2550
    [] order.total \in {"abc", Undefined} -> 0

RECURSIVE sumCents(_, _)
sumCents(orders, i) ==
  IF i = 0 THEN 0
  ELSE sumCents(orders, i - 1)
         + (IF orders[i].status = "completed" THEN cents(orders[i]) ELSE 0)

\* C30: when an order reduction succeeds, the all-time revenue it writes is the
\* sum of the totals of the fetched orders whose status is 'completed', a total
\* that is not a number or is absent counting as 0 and orders of any other
\* status adding nothing; such an order is still counted under its status, and
\* the reduction fails only when a fetch failed.
C30_TotalRevenue ==
  [][\A c \in 1..Len(colls) :
       LET s == colls[c].store
           new == colls'[c].br["orders"]
       IN /\ succeeds(c, "orders") =>
               /\ registry'["totalRevenueGauge"][avgLabels(s)]
                    = sumCents(new.ret.data, Len(new.ret.data))
               /\ \A st \in {o.status : o \in Range(new.ret.data)} :
                    registry'["ordersByStatusGauge"][storeLabels(s) @@ [status |-> st]
                                                      @@ [currency |-> Currency(s)]]
                      = countStatus(new.ret.data, st)
          /\ (colls[c].br["orders"].status = "pending" /\ new.status = "rejected") =>
               new.resps[Len(new.resps)] = "error"]_vars

\* Three completed orders were fetched, one with the total 25.50, one with the
\* total "abc", one without a total: the revenue is 25.50 and the three are
\* counted as completed.
C30_Witness ==
  \E c \in 1..Len(colls) :
    /\ colls[c].br["orders"].status = "fulfilled"
    /\ colls[c].br["orders"].ret.data = <<OrderBig, OrderC, OrderU>>
    /\ Len(colls) = 1
    /\ registry["totalRevenueGauge"][avgLabels("store1")] = 2550
    /\ registry["ordersByStatusGauge"][storeLabels("store1") @@ [status |-> "completed"]
                                        @@ [currency |-> Currency("store1")]] = 3

\* C24: testConnection issues exactly one request, for the system status;
\* it returns true when the request succeeds and false when it fails, and never
\* ends with an error.
C24_ProbeNeverThrows ==
  call.endpoint = "system_status" =>
    /\ call.reqs = <<[endpoint |-> "system_status", params |-> <<>>]>>
    /\ call.pc \in {"await", "done"}
    /\ call.pc = "await" => call.resps = <<>>
    /\ call.pc = "done" =>
         /\ Len(call.resps) = 1
         /\ call.ret = ValRet(call.resps[1] = "ok")

\* A probe whose request failed has returned false.
C24_Witness ==
  /\ call.endpoint = "system_status"
  /\ call.resps = <<"error">>
  /\ call.ret = ValRet(FALSE)

wroteSample(c, x) ==
  LET s == colls[c].store
      br == colls[c].br
      failures == {d \in 1..Len(colls) :
                     /\ colls[d].store = s
                     /\ x.labels.error_type \in Branches
                     /\ colls[d].br[x.labels.error_type].status = "rejected"}
  IN /\ x.labels.store_id = s
     /\ CASE x.name = "scrapeErrorsCounter" ->
               c \in failures /\ x.value \in 1..Cardinality(failures)
          [] x.name \in {"lastScrapeSuccessGauge", "scrapeDurationGauge"} ->
               /\ colls[c].pc = "returned"
               /\ x.value \in {floorSeconds(now), now - colls[c].startTime}
          [] x.name = "totalCustomersGauge" ->
               br["customers"].status = "fulfilled"
                 /\ x.value = br["customers"].totalCustomers
          [] x.name = "apiResponseTimeGauge" /\ x.labels.endpoint = "customers" ->
               Len(br["customers"].resps) >= 1 /\ br["customers"].resps[1] = "ok"
                 /\ x.value = now - br["customers"].apiStartTime
          [] OTHER ->
               \E b \in {"orders", "products"} :
                 /\ br[b].status = "fulfilled"
                 /\ [series |-> x.name, labels |-> x.labels, value |-> x.value]
                      \in Range(IF b = "orders"
                                THEN orderWrites(s, br[b].ret.data, br[b].apiStartTime, now)
                                ELSE productWrites(s, br[b].ret.data, br[b].apiStartTime,
                                                   now))

\* C23: GET /metrics is answered with status 200 whatever collections are in
\* flight, and every sample of the answer is a value that a completed set or
\* increment of some collection wrote; samples of different series may come
\* from different collections.
C23_RenderWhileCollecting ==
  proc.renders > 0 =>
    /\ proc.rendered.status = 200
    /\ \A x \in proc.rendered.body : \E c \in 1..Len(colls) : wroteSample(c, x)

\* The answer holds the order total that a collection still in flight wrote
\* and the customer count of another collection, whose order reduction failed.
C23_Witness ==
  /\ proc.renders > 0
  /\ \E c, d \in 1..Len(colls) :
       /\ c # d
       /\ colls[c].store = colls[d].store
       /\ colls[d].pc = "running"
       /\ colls[d].br["orders"].status = "fulfilled"
       /\ colls[d].br["customers"].status = "pending"
       /\ colls[c].br["orders"].status = "rejected"
       /\ colls[c].br["customers"].status = "fulfilled"
       /\ \E x, y \in proc.rendered.body :
            /\ x.name = "totalOrdersGauge"
            /\ y.name = "totalCustomersGauge"

\* The products the claim puts in the two buckets: out of stock by the status
\* flag or by a tracked quantity of exactly 0; low on stock when tracked, not
\* out of stock and with a tracked quantity of at most 10.  A product without a
\* tracked quantity (null) has no quantity of 0.
claimedOutOfStock(products) ==
  {i \in 1..Len(products) :
     \/ products[i].stock_status = "outofstock"
     \/ products[i].stock_quantity = Num(0)}

claimedLowStock(products) ==
  {i \in 1..Len(products) :
     /\ i \notin claimedOutOfStock(products)
     /\ products[i].manage_stock
     /\ products[i].stock_quantity # Null
     /\ products[i].stock_quantity.v <= 10}

\* C31: when a product reduction succeeds, outOfStock is the number of fetched
\* products whose stock status is 'outofstock' or whose tracked quantity is
\* exactly zero, lowStock the number of the remaining tracked products with a
\* quantity of at most 10; an in-stock product without stock tracking and
\* without a tracked quantity is in neither.
C31_StockBuckets ==
  [][\A c \in 1..Len(colls) :
       succeeds(c, "products") =>
         LET s == colls[c].store
             products == colls'[c].br["products"].ret.data
         IN /\ registry'["outOfStockProductsGauge"][storeLabels(s)]
                 = Cardinality(claimedOutOfStock(products))
            /\ registry'["lowStockProductsGauge"][storeLabels(s) @@ [threshold |-> "10"]]
                 = Cardinality(claimedLowStock(products))]_vars

\* The products sold in the orders and the quantity sold of each, summed over
\* the line items.
soldIds(orders) == {it.product_id : it \in Range(lineItems(orders))}

RECURSIVE soldQuantity(_, _, _)
soldQuantity(items, id, i) ==
  IF i = 0 THEN 0
  ELSE soldQuantity(items, id, i - 1)
         + (IF items[i].product_id = id THEN items[i].quantity ELSE 0)

sold(orders, id) == soldQuantity(lineItems(orders), id, Len(lineItems(orders)))

rankingLabels(s, orders, id) ==
  storeLabels(s) @@
  [product_id |-> toString(id),
   product_name |-> (CHOOSE it \in Range(lineItems(orders)) : it.product_id = id).name]

rankingCells(reg, s) == {l \in DOMAIN reg["topProductsSoldGauge"] : l.store_id = s}

\* C32: an order reduction that finds no ranking cell of its store leaves
\* min(10, n) of them for the n products sold, each holding the product's
\* summed quantity, and no product left out sold more than a product written;
\* a reduction over the record set of the reduction before it chooses the same
\* products again.
C32_TopTenByQuantity ==
  [][\A c \in 1..Len(colls) :
       succeeds(c, "orders") =>
         LET s == colls[c].store
             orders == colls'[c].br["orders"].ret.data
             ids == soldIds(orders)
             reg == registry'["topProductsSoldGauge"]
         IN /\ rankingCells(registry, s) = {} =>
                 \E T \in SUBSET ids :
                   /\ Cardinality(T) = Min(10, Cardinality(ids))
                   /\ rankingCells(registry', s) = {rankingLabels(s, orders, id) : id \in T}
                   /\ \A id \in T : reg[rankingLabels(s, orders, id)] = sold(orders, id)
                   /\ \A p \in ids \ T, q \in T : sold(orders, p) <= sold(orders, q)
            /\ (c >= 2 /\ colls[c - 1].store = s
                  /\ colls[c - 1].br["orders"].status = "fulfilled"
                  /\ colls[c - 1].br["orders"].ret.data = orders) =>
                 registry'["topProductsSoldGauge"] = registry["topProductsSoldGauge"]]_vars

\* Eleven products were sold; ten are ranked, the two that sold 20 among them,
\* the one that sold 1 is not.
C32_Witness ==
  \E c \in 1..Len(colls) :
    /\ colls[c].br["orders"].status = "fulfilled"
    /\ colls[c].br["orders"].ret.data = <<OrderBig, OrderC, OrderU>>
    /\ Cardinality(rankingCells(registry, "store1")) = 10
    /\ \A id \in {2, 3} :
         registry["topProductsSoldGauge"][rankingLabels("store1", <<OrderBig>>, id)] = 20
    /\ rankingLabels("store1", <<OrderBig>>, 4) \notin rankingCells(registry, "store1")

\* The cells of the registry that carry the store_id s, with their values.
cellsOf(reg, s) ==
  [n \in SeriesNames |-> [l \in {k \in DOMAIN reg[n] : k.store_id = s} |-> reg[n][l]]]

\* C33: a step of a collection of store s creates or changes no cell whose
\* store_id is another store's, and every cell it creates carries the store_id
\* s, whatever other collections are in flight.
C33_StoreFrame ==
  [][\A c \in 1..Len(colls) :
       colls'[c] # colls[c] =>
         /\ \A o \in Stores \ {colls[c].store} : cellsOf(registry', o) = cellsOf(registry, o)
         /\ \A n \in SeriesNames : \A l \in DOMAIN registry'[n] \ DOMAIN registry[n] :
              l.store_id = colls[c].store]_vars

\* The collections of the two stores of one cycle are both in flight and each
\* has written cells of its own store.
C33_Witness ==
  \E c, d \in 1..Len(colls) :
    /\ colls[c].store = "store1" /\ colls[d].store = "store2"
    /\ colls[c].pc = "running" /\ colls[d].pc = "running"
    /\ colls[c].br["orders"].status = "fulfilled"
    /\ colls[d].br["products"].status = "fulfilled"
    /\ cellsOf(registry, "store1")["totalOrdersGauge"] # <<>>
    /\ cellsOf(registry, "store2")["totalProductsGauge"] # <<>>

\* C34: every cell of the registry, each created by a set or an increment of
\* the collector, carries exactly the label names its series is declared with.
C34_LabelsMatchSchema ==
  \A n \in SeriesNames : \A l \in DOMAIN registry[n] : DOMAIN l = labelNames(n)

\* Two collections have returned, one of them with failed reductions: cells of
\* every kind of series have been written, the error counter among them.
C34_Witness ==
  /\ Len(colls) = 2
  /\ \A c \in 1..Len(colls) : colls[c].pc = "returned"
  /\ \A n \in {"ordersByStatusGauge", "totalRevenueGauge", "totalProductsGauge",
               "lowStockProductsGauge", "topProductsSoldGauge", "totalCustomersGauge",
               "scrapeErrorsCounter", "apiResponseTimeGauge", "lastScrapeSuccessGauge"} :
       registry[n] # <<>>

\* C35: a POST /collect/:storeId either starts a collection for a store of
\* the active set, or, for an id outside it, is answered with the error
\* "Store <id> not found or not initialized" as its message, starts no
\* collection (so issues no fetch) and leaves the registry unchanged.
C35_UnknownStoreRejected ==
  [][manuals' = manuals + 1 =>
       \/ /\ Len(colls') = Len(colls) + 1
          /\ colls'[Len(colls')].store \in storeClients
       \/ /\ \E s \in Stores \ storeClients :
               /\ proc'.collectResponse.status = 500
               /\ proc'.collectResponse.message
                    = "Store " \o s \o " not found or not initialized"
          /\ colls' = colls
          /\ registry' = registry]_vars

\* A collection was requested for store2, which has no client, while a probe
\* of store1 was in flight.
C35_Witness ==
  /\ proc.collectResponse.status = 500
  /\ proc.collectResponse.message = "Store store2 not found or not initialized"
  /\ colls = <<>>
  /\ call.pc = "await"

\* The series an order (resp. product) reduction writes.
derived(b) ==
  IF b = "orders"
  THEN {"totalOrdersGauge", "ordersByStatusGauge", "totalRevenueGauge", "revenueTodayGauge",
        "revenueThisMonthGauge", "averageOrderValueGauge", "pendingOrdersGauge",
        "failedOrdersGauge", "processingOrdersGauge", "topProductsSoldGauge",
        "apiResponseTimeGauge"}
  ELSE {"totalProductsGauge", "lowStockProductsGauge", "outOfStockProductsGauge",
        "apiResponseTimeGauge"}

\* C36: no step of an order (resp. product) reduction other than the one in
\* which it succeeds changes an order-derived (resp. product-derived) series,
\* so a reduction that fails leaves them at the values of the last successful
\* one; the step in which it fails adds 1 to its error cell and changes nothing
\* else but what the end of the collection writes (timestamp and duration).
C36_FailedReductionKeepsGauges ==
  [][\A c \in 1..Len(colls) : \A b \in {"orders", "products"} :
       LET s == colls[c].store
           old == colls[c].br[b]
           new == colls'[c].br[b]
       IN (new # old /\ ~succeeds(c, b)) =>
            /\ \A n \in derived("orders") \cup derived("products") \cup {"totalCustomersGauge"} :
                 registry'[n] = registry[n]
            /\ new.status = "rejected" =>
                 /\ errors(registry', s, b) = errors(registry, s, b) + 1
                 /\ \A l \in DOMAIN registry'["scrapeErrorsCounter"] :
                      l # storeLabels(s) @@ [error_type |-> b] =>
                        /\ l \in DOMAIN registry["scrapeErrorsCounter"]
                        /\ registry'["scrapeErrorsCounter"][l] = registry["scrapeErrorsCounter"][l]
            /\ new.status # "rejected" => registry' = registry]_vars

\* The second collection's order reduction failed after the shop's orders had
\* changed: the order total is still the one the first collection counted.
C36_Witness ==
  /\ Len(colls) = 2
  /\ colls[1].br["orders"].status = "fulfilled"
  /\ colls[2].br["orders"].status = "rejected"
  /\ colls[2].saw # colls[1].saw
  /\ registry["totalOrdersGauge"][orderTotalLabels("store1")]
       = Len(colls[1].br["orders"].ret.data)
  /\ errors(registry, "store1", "orders") = 1

\* The gauge writes of the order reduction of collection c, from the records
\* it fetched.
writesOfCollection(coll, t) ==
  Range(orderWrites(coll.store, coll.br["orders"].ret.data,
                    coll.br["orders"].apiStartTime, t))

\* The registry holds the write w.
holds(reg, w) ==
  /\ w.labels \in DOMAIN reg[w.series]
  /\ reg[w.series][w.labels] = w.value

\* Of two collections of one store whose order reductions both succeeded, one
\* is the source of every cell that both wrote.
noMixture(cs, reg, t) ==
  \A c, d \in 1..Len(cs) :
    (/\ c < d
     /\ cs[c].store = cs[d].store
     /\ cs[c].br["orders"].status = "fulfilled"
     /\ cs[d].br["orders"].status = "fulfilled") =>
       \E Wc \in {writesOfCollection(cs[c], t)}, Wd \in {writesOfCollection(cs[d], t)} :
         \E both \in {{<<w.series, w.labels>> : w \in Wc}
                        \cap {<<w.series, w.labels>> : w \in Wd}} :
           \E W \in {Wc, Wd} :
             \A w \in W : <<w.series, w.labels>> \in both => holds(reg, w)

\* C37: the step in which an order reduction succeeds writes every cell of
\* the reduction from the records it fetched, no other step of a collection
\* writes an order-derived cell, and so of two overlapping collections of one
\* store that fetched different records, one alone is the source of every
\* order-derived cell both wrote (the clock stands still in SpecOverlap).
C37_OrderWritesAtomic ==
  [][/\ \A c \in 1..Len(colls) :
          /\ succeeds(c, "orders") =>
               \E W \in {writesOfCollection(colls'[c], now)} :
                 \A w \in W : holds(registry', w)
          /\ (colls'[c] # colls[c] /\ ~succeeds(c, "orders")) =>
               \A n \in derived("orders") \ {"apiResponseTimeGauge"} :
                 registry'[n] = registry[n]
     /\ registry' # registry => noMixture(colls', registry', now)]_vars

\* Two collections of the store, both still in flight, fetched different
\* orders (two orders with 10.00 of revenue, then one order without revenue);
\* total and revenue are both those of the second.
C37_Witness ==
  \E c, d \in 1..Len(colls) :
    /\ overlap(c, d)
    /\ colls[c].br["orders"].status = "fulfilled"
    /\ colls[d].br["orders"].status = "fulfilled"
    /\ Len(colls[c].br["orders"].ret.data) = 2
    /\ Len(colls[d].br["orders"].ret.data) = 1
    /\ registry["totalOrdersGauge"][orderTotalLabels(colls[c].store)] = 1
    /\ registry["totalRevenueGauge"][storeLabels(colls[c].store)
          @@ [currency |-> Currency(colls[c].store)] @@ [period |-> "all_time"]] = 0

\* The first customer fetch (per_page 1) of collection c fails in this step.
firstFetchFails(c) ==
  /\ colls[c].br["customers"].phase = "first"
  /\ colls[c].br["customers"].pc = "await"
  /\ colls'[c].br["customers"].resps = <<"error">>

\* C38: when the first customer fetch fails the customer reduction is
\* rejected in that step: the store's 'customers' error cell grows by exactly
\* 1, no further customer request is issued then or later, no fallback count
\* is written and the totalCustomers series is unchanged.
C38_FirstFetchFailure ==
  [][\A c \in 1..Len(colls) :
       LET s == colls[c].store
           old == colls[c].br["customers"]
           new == colls'[c].br["customers"]
       IN /\ firstFetchFails(c) =>
               /\ new.status = "rejected"
               /\ new.reqs = old.reqs
               /\ errors(registry', s, "customers") = errors(registry, s, "customers") + 1
               /\ registry'["totalCustomersGauge"] = registry["totalCustomersGauge"]
               /\ registry'["apiResponseTimeGauge"] = registry["apiResponseTimeGauge"]
          /\ old.status = "rejected" =>
               /\ new = old
               /\ Len(old.reqs) = 1
               /\ old.reqs[1].params.per_page = 1]_vars

\* The first collection counted 2 customers; the shop changed and the second
\* collection's first customer fetch failed: the cell still holds 2.
C38_Witness ==
  /\ Len(colls) = 2
  /\ colls[1].br["customers"].status = "fulfilled"
  /\ colls[1].br["customers"].totalCustomers = 2
  /\ colls[2].br["customers"].status = "rejected"
  /\ colls[2].saw.customers = 100
  /\ colls[2].pc = "returned"
  /\ registry["totalCustomersGauge"][storeLabels("store1")] = 2
  /\ errors(registry, "store1", "customers") = 1

\* The member collections of cycle k with a rejected reduction.
withFailures(k) ==
  {m \in cycleMembers(colls, k) : \E b \in Branches : colls[m].br[b].status = "rejected"}

\* C39: in every full cycle that has ended, completed + failed is the number
\* of store clients, and every store is counted as completed, those whose
\* reductions were rejected (even all three) included: failed is 0.
C39_CycleCounts ==
  \A k \in 1..Len(cycles) :
    cycles[k].pc = "done" =>
      /\ cycles[k].completed + cycles[k].failed = Cardinality(storeClients)
      /\ cycles[k].completed >= Cardinality(withFailures(k))
      /\ cycles[k].completed = Cardinality(cycleMembers(colls, k))
      /\ cycles[k].failed = 0

\* A cycle over two stores has ended; all three reductions of one store were
\* rejected, and both stores are counted as completed.
C39_Witness ==
  \E k \in 1..Len(cycles) :
    /\ cycles[k].pc = "done"
    /\ Cardinality(storeClients) = 2
    /\ \E m \in cycleMembers(colls, k) :
         \A b \in Branches : colls[m].br[b].status = "rejected"
    /\ cycles[k].completed = 2
    /\ cycles[k].failed = 0

\* The revenue cells of store s.
revenueCells(reg, s) ==
  [today |-> reg["revenueTodayGauge"][storeLabels(s) @@ [currency |-> Currency(s)]],
   month |-> reg["revenueThisMonthGauge"][storeLabels(s) @@ [currency |-> Currency(s)]],
   total |-> reg["totalRevenueGauge"][avgLabels(s)]]

\* C40: when an order reduction succeeds on orders whose totals are not
\* negative, the revenue values it writes for the store are ordered:
\* revenueToday <= revenueThisMonth <= totalRevenue.
C40_RevenueOrdered ==
  [][\A c \in 1..Len(colls) :
       LET data == colls'[c].br["orders"].ret.data
       IN (/\ succeeds(c, "orders")
           /\ \A i \in 1..Len(data) : orderTotal(data[i]) >= 0) =>
            \E r \in {revenueCells(registry', colls[c].store)} :
              /\ r.today <= r.month
              /\ r.month <= r.total]_vars

\* The store was collected twice, a day apart, with a completed order of
\* 10.00 placed on the first day and a pending one of 25.50 of the same month:
\* after the second collection nothing was earned today, 10.00 this month.
C40_Witness ==
  /\ Len(colls) = 2
  /\ now = Epoch + DayMs
  /\ colls[2].br["orders"].status = "fulfilled"
  /\ colls[2].br["orders"].ret.data = <<OrderA, OrderB>>
  /\ revenueCells(registry, "store1") = [today |-> 0, month |-> 1000, total |-> 1000]

====
